---- MODULE Spec2Model ----
(***************************************************************************)
(* Model of the completeness / selection-function engine of nemo           *)
(* (nemo/completeness.py) and of the mass-definition conversion            *)
(* (nemo/simsTools.py).                                                    *)
(*                                                                         *)
(* Numbers.  The code works on floats; the model works on exact integers:  *)
(*   - a noise level (y0RMS) and a signal (y0) are counted in noise quanta,*)
(*     stepSize (completeness.py:515) being stepSize quanta;               *)
(*   - an area (areaDeg2) is counted in area quanta;                       *)
(*   - a probability, a weight and a completeness are fixed-point numbers  *)
(*     with One standing for 1.0, divisions rounding down.                 *)
(***************************************************************************)
EXTENDS Integers, Sequences, FiniteSets, TLC

VARIABLES
    \* ---- downsampleRMSTab applied to a table (SpecDownsample)
    dsIn,               \* the RMSTab handed to downsampleRMSTab
    dsOut,              \* what the call gave: NotRun, or [status, tab]
    \* ---- the selection-function store (Spec)
    cache,              \* selFnDir: tile -> the cached RMSTab file, if any
    downsampleRMS,      \* SelFn.__init__'s downsampleRMS
    pc,                 \* "new", "ready" (constructed), "failed" (__init__ raised)
    selFnDictList,      \* self.selFnDictList
    totalAreaDeg2,      \* self.totalAreaDeg2
    scalingRelationDict,\* self.scalingRelationDict
    mockSurvey,         \* the cosmology self.mockSurvey was last updated to
    compMz,             \* self.compMz
    tileTab,            \* self.tileTab (with WCSDict, areaMaskDict): None until set up
    ret,                \* the last call on the store and what it gave
    rmsTabsLoaded,      \* the tiles getRMSTab has been called for, in order
    \* ---- calcCompleteness applied to one tile (SpecCompleteness)
    ccIn,               \* its arguments: RMSTab, tileName, cosmology, scaling relation
    ccOut,              \* what the call gave
    \* ---- calcMassLimit applied to one surface (SpecMassLimit)
    mlIn,               \* its arguments: completenessFraction, compMz, zBinEdges
    mlOut,              \* what the call gave
    \* ---- completenessByFootprint applied to a collection (SpecFootprint)
    selFnCollection,    \* footprint label -> list of selFnDicts
    fpOut,              \* what the call wrote and printed
    \* ---- convertM500cToM200m, one loop iteration at a time (SpecConvert)
    cvIn,               \* its arguments M500c, z, and where they lie
    scaleFactor,        \* scaleFactor
    ratio,              \* ratio
    count,              \* count
    evals,              \* the ratios found so far, one per call of convertM200mToM500c
    cvPc,               \* "loop", "returned", "raised"
    cvOut,              \* the M200m returned
    \* ---- calcCompleteness, method "Monte Carlo", one draw at a time (SpecMonteCarlo)
    mcIn,               \* its arguments: RMSTab, tileName, numIterations
    mcIter,             \* i of the loop of line 697
    allMz,              \* allMz[k][j]: objects drawn so far in the cell
    detMz,              \* detMz[k][j]: those of them passing the SNR cut
    mcPc,               \* "loop", "returned", "raised"
    mcOut,              \* what the call gave
    \* ---- getRMSTab and tidyUp on one selFnDir (SpecRMSTab)
    rtFiles,            \* file name -> the table file of that name, or NoFile
    rtMaps,             \* the tiles whose RMSMap and areaMask are in selFnDir
    rtMasks,            \* the tiles whose intersection mask is cached
    rtPersisted,        \* (tile, footprint) -> the table a call wrote for it
    rtLast,             \* the last call and what it gave
    \* ---- parseConfigFile on one config file (SpecParseConfig)
    parseIn,            \* the tileDefinitions and tileNameList of the .yml file
    parseOut,           \* the parDict returned, or the exception
    \* ---- NemoConfig in every process of an MPI job (SpecMPI)
    mpiIn,              \* the job: size, the tile names, the arguments of NemoConfig
    rankState,          \* rank -> where the process is, its tileNames, allTileNames
    gathered,           \* what rank 0 got from the gather, or NotRun
    \* ---- NemoConfig.parDict and restoreConfig (SpecRestore)
    cfgHeap,            \* address -> the dictionary object there, or Free
    parDictRef,         \* self.parDict: the address of the dictionary
    origParDictRef,     \* self._origParDict: an address, or 0 before line 216
    parsedValue,        \* what parseConfigFile returned, as a value
    cfgLast,            \* the last call on the NemoConfig
    \* ---- the cosmology of astCalc around y0FromLogM500, calcM500Fromy0 (SpecCosmology)
    astCalc,            \* astCalc.H0, astCalc.OMEGA_M0, astCalc.OMEGA_L0
    cosmoLast,          \* the last call, the cosmology before it, what it gave
    \* ---- fitQ in every process of an MPI job (SpecFitQ)
    fqIn,               \* the job: processes, the tiles, whether QFit.pickle is there
    fqRank,             \* rank -> where the process is, its extNames, rank_QTabDict
    fqFile,             \* QFit.pickle: NoQFit, or the dictionary pickled there
    fqWrites            \* how many times QFit.pickle has been written

dsVars == <<dsIn, dsOut>>
storeVars == <<cache, downsampleRMS, pc, selFnDictList, totalAreaDeg2,
               scalingRelationDict, mockSurvey, compMz, tileTab, ret, rmsTabsLoaded>>
ccVars == <<ccIn, ccOut>>
mlVars == <<mlIn, mlOut>>
fpVars == <<selFnCollection, fpOut>>
cvVars == <<cvIn, scaleFactor, ratio, count, evals, cvPc, cvOut>>
mcVars == <<mcIn, mcIter, allMz, detMz, mcPc, mcOut>>
coreVars == <<dsVars, storeVars, ccVars, mlVars, fpVars, cvVars>>
rtVars == <<rtFiles, rtMaps, rtMasks, rtPersisted, rtLast>>
parseVars == <<parseIn, parseOut>>
mpiVars == <<mpiIn, rankState, gathered>>
cfgVars == <<parseVars, mpiVars>>
restoreVars == <<cfgHeap, parDictRef, origParDictRef, parsedValue, cfgLast>>
cosmoVars == <<astCalc, cosmoLast>>
fitQVars == <<fqIn, fqRank, fqFile, fqWrites>>
auxVars == <<restoreVars, cosmoVars, fitQVars>>
extVars == <<mcVars, rtVars, cfgVars, auxVars>>
vars == <<coreVars, extVars>>

\* ------------------------------------------------------------------ bounds
\* Noise levels of a raw table are 1..MaxRMS quanta.
MaxRMS == 4
\* A row's area is 0..MaxArea quanta.
MaxArea == 2

\* stepSize=0.001*1e-4, in noise quanta.
stepSize == 2

NotRun == [status |-> "notrun"]
Raised(what) == [status |-> "error", error |-> what]

\* ------------------------------------------------------------- noise tables
\* An RMSTab: rows (y0RMS, areaDeg2).  getRMSTab builds it from
\* np.unique(RMSMap[np.nonzero(RMSMap)]): strictly increasing, positive noise
\* levels; the area of a level is a sum of pixel areas times the area mask,
\* which may be zero.
Row(y, a) == [y0RMS |-> y, areaDeg2 |-> a]

RECURSIVE SeqOfSet(_)
SeqOfSet(S) ==
    IF S = {} THEN <<>>
    ELSE LET m == CHOOSE x \in S : \A y \in S : x <= y
         IN <<m>> \o SeqOfSet(S \ {m})

RMSTables ==
    UNION { { [i \in 1..Len(SeqOfSet(L)) |-> Row(SeqOfSet(L)[i], f[SeqOfSet(L)[i]])] :
                f \in [L -> 0..MaxArea] } : L \in SUBSET (1..MaxRMS) }

\* RMSTab['areaDeg2'].sum()
RECURSIVE SumArea(_)
SumArea(tab) ==
    IF Len(tab) = 0 THEN 0 ELSE tab[1].areaDeg2 + SumArea(Tail(tab))

\* sum of y0RMS*areaDeg2: the numerator of np.average(y0RMS, weights = areaDeg2)
RECURSIVE SumNoiseArea(_)
SumNoiseArea(tab) ==
    IF Len(tab) = 0 THEN 0
    ELSE tab[1].y0RMS * tab[1].areaDeg2 + SumNoiseArea(Tail(tab))

MinRMS(tab) == CHOOSE y \in {tab[i].y0RMS : i \in 1..Len(tab)} :
                  \A i \in 1..Len(tab) : y <= tab[i].y0RMS
MaxRMSOf(tab) == CHOOSE y \in {tab[i].y0RMS : i \in 1..Len(tab)} :
                  \A i \in 1..Len(tab) : y >= tab[i].y0RMS

\* np.arange(start, stop, step): start + k*step for k < ceil((stop-start)/step)
ArangeLen(start, stop, step) ==
    IF stop <= start THEN 0 ELSE (stop - start + step - 1) \div step
Arange(start, stop, step) ==
    [k \in 1..ArangeLen(start, stop, step) |-> start + (k - 1) * step]

\* mask=np.logical_and(RMSTab['y0RMS'] > binEdges[i], RMSTab['y0RMS'] <= binEdges[i+1])
BinMask(tab, lo, hi) ==
    SelectSeq(tab, LAMBDA r : r.y0RMS > lo /\ r.y0RMS <= hi)

\* The rows of the bins i..Len(binEdges)-1, in bin order, empty bins dropped.
RECURSIVE BinnedFrom(_, _, _)
BinnedFrom(tab, binEdges, i) ==
    IF i >= Len(binEdges) THEN <<>>
    ELSE LET rows == BinMask(tab, binEdges[i], binEdges[i + 1])
         IN  IF Len(rows) > 0
             THEN <<Row(SumNoiseArea(rows) \div SumArea(rows), SumArea(rows))>>
                    \o BinnedFrom(tab, binEdges, i + 1)
             ELSE BinnedFrom(tab, binEdges, i + 1)

downsampleRMSTab(tab) ==
    IF Len(tab) = 0
    THEN Raised("ValueError")              \* min() of an empty column
    ELSE LET binEdges == Arange(MinRMS(tab), MaxRMSOf(tab) + stepSize, stepSize)
         IN  IF \E i \in 1..(Len(binEdges) - 1) :
                    LET rows == BinMask(tab, binEdges[i], binEdges[i + 1])
                    IN  Len(rows) > 0 /\ SumArea(rows) = 0
             THEN Raised("ZeroDivisionError")   \* np.average: weights sum to zero
             ELSE [status |-> "ok", tab |-> BinnedFrom(tab, binEdges, 1)]

\* ------------------------------------------------------- fixed-point numbers
\* 1.0 as a fixed-point number: probabilities, weights, log-signals and their
\* errors are counted in units of 1/One.
One == 1000

Max2(a, b) == IF a >= b THEN a ELSE b
Min2(a, b) == IF a <= b THEN a ELSE b
Abs(a) == IF a >= 0 THEN a ELSE -a

RECURSIVE IPow(_, _)
IPow(b, e) == IF e <= 0 THEN 1 ELSE b * IPow(b, e - 1)

\* floor(log2 n), n >= 1
RECURSIVE Log2Floor(_)
Log2Floor(n) == IF n < 2 THEN 0 ELSE 1 + Log2Floor(n \div 2)

\* np.log(n) for an integer n >= 1, in units of 1/One: log2 n read off its
\* integer part and a linear mantissa, times ln 2 = 0.693.  Non-decreasing.
Ln(n) ==
    LET k == Log2Floor(n)
        \* the mantissa to 10 bits: m/p in [1, 2)
        m == IF k > 10 THEN n \div IPow(2, k - 10) ELSE n
        p == IF k > 10 THEN 1024 ELSE IPow(2, k)
    IN  ((k * One + ((m - p) * One) \div p) * 693) \div 1000

\* floor(sqrt n)
RECURSIVE ISqrtFrom(_, _)
ISqrtFrom(n, r) == IF (r + 1) * (r + 1) > n THEN r ELSE ISqrtFrom(n, r + 1)
RECURSIVE ISqrt(_)
ISqrt(n) ==
    IF n < 4 THEN ISqrtFrom(n, 0)
    ELSE LET h == 2 * ISqrt(n \div 4) IN ISqrtFrom(n, h)

\* stats.norm.sf at 0, 0.5, 1, ..., 4 standard deviations, per mille
SFTable == <<500, 309, 159, 67, 23, 6, 1, 0, 0>>

\* The upper tail of the standard normal at t (t in units of 1/One), in units
\* of 1/One: the table, linear in between, 0 beyond 4 sigma; sf(-t) = 1 - sf(t).
SFUpper(t) ==
    LET h == One \div 2
        k == t \div h
        r == t % h
    IN  IF k >= 8 THEN 0
        ELSE LET hi == (SFTable[k + 1] * One) \div 1000
                 lo == (SFTable[k + 2] * One) \div 1000
             IN  hi - ((hi - lo) * r) \div h
NormSF(t) == IF t >= 0 THEN SFUpper(t) ELSE One - SFUpper(-t)

\* ------------------------------------------------- mockSurvey (MockSurvey.py)
\* The (z, log10 M) grid that every surface lives on: mockSurvey.z, in units
\* of 0.05, and mockSurvey.log10M.
zGrid == <<0, 10, 20>>
log10M == <<14, 15, 16>>
ZIdx == 1..Len(zGrid)
MIdx == 1..Len(log10M)

\* A cosmology (H0, Om0, Ob0, sigma_8); Om0 in tenths.
Cosmo(h, om, ob, s8) == [H0 |-> h, Om0 |-> om, Ob0 |-> ob, sigma_8 |-> s8]
\* H0=70., Om0=0.30, Ob0=0.05, sigma_8=0.8 of SelFn.__init__
FiducialCosmo == Cosmo(70, 3, 5, 8)
Cosmologies == {FiducialCosmo, Cosmo(68, 4, 5, 8)}

\* mockSurvey.Ez[k]^2 in tenths, flat LCDM: Om0*(1+z)^3 + 1 - Om0
\* (z in units of 0.05, so (1+z)^3 is (20+z)^3/8000)
Ez2(cosmo, k) ==
    (cosmo.Om0 * IPow(20 + zGrid[k], 3)) \div 8000 + (10 - cosmo.Om0)

\* fRelSplines[k] at log10M[j], in tenths: the relativistic correction
fRel(k, j) == IF j = Len(log10M) THEN 9 ELSE 10

\* ------------------------------------------------------ tiles and filters
TileSeq == <<"t1", "t2">>
TileNames == {TileSeq[i] : i \in 1..Len(TileSeq)}

\* tckQFitDict[tileName] at theta500(log10M[j], z[k]), in tenths.  For some
\* cosmological parameters the product below can come out negative
\* (completeness.py:727): tile t2's filter response does at the lowest mass.
QFit(tileName, k, j) ==
    IF tileName = "t1" THEN <<8, 10, 12>>[j] ELSE <<-2, 9, 11>>[j]

\* --------------------------------------------------------- scaling relation
\* scalingRelationDict: tenToA0 in noise quanta, Mpivot in 1e14 MSun, sigma_int
\* in units of 1/One; MpivotType "str" is a config whose Mpivot was written as
\* a string.
Scaling(a, b, mp, s, ty) ==
    [tenToA0 |-> a, B0 |-> b, Mpivot |-> mp, sigma_int |-> s, MpivotType |-> ty]
\* parDict['massOptions']
massOptions == Scaling(4, 0, 3, 200, "float")
ScalingRelations ==
    {massOptions, Scaling(6, 1, 2, 0, "float"), Scaling(4, 0, 3, 200, "str")}

\* The caller's SNRCut.
SNRCut == 5

\* y0Grid[y0Grid <= 0] = 1e-9: the floor is 1/y0FloorDen of a noise quantum
y0FloorDen == 50

\* np.power(10, mockSurvey.log10M[j]) in 1e14 MSun
Mass(j) == IPow(10, log10M[j] - 14)

\* true_y0s_zk at (k, j), times 1000*Mpivot^(1+B0):
\* tenToA0*Ez^2*(M/Mpivot)^(1+B0)*Q*fRel
true_y0s_zk(sr, cosmo, tileName, k, j) ==
    sr.tenToA0 * Ez2(cosmo, k) * IPow(Mass(j), 1 + sr.B0)
       * QFit(tileName, k, j) * fRel(k, j)

\* y0Grid at (k, j), as a fraction [num, den] of noise quanta: true_y0s_zk,
\* then the floor of line 728
y0Grid(sr, cosmo, tileName, k, j) ==
    LET num == true_y0s_zk(sr, cosmo, tileName, k, j)
        den == 1000 * IPow(sr.Mpivot, 1 + sr.B0)
    IN  IF num <= 0 THEN [num |-> 1, den |-> y0FloorDen]
        ELSE [num |-> num, den |-> den]

\* log_y0Err left at 1/SNRGrid below the cut as well
LogY0ErrUnclamped(y0, rms) == Min2(30 * One, (One * y0.den * rms) \div y0.num)

\* log_y0Err at one noise level: 1/SNRGrid, and 1/SNRCut where SNRGrid < SNRCut
LogY0Err(y0, rms) ==
    IF y0.num < SNRCut * y0.den * rms
    THEN One \div SNRCut
    ELSE (One * y0.den * rms) \div y0.num

\* The tail taken with the measurement error alone as its scale
DetectionProbNoScatter(y0, rms, sigma_int) ==
    LET diff == Ln(SNRCut * y0.den * rms) - Ln(y0.num)
        tot == Max2(1, LogY0Err(y0, rms))
        t == IF diff >= 0 THEN (diff * One) \div tot ELSE -(((-diff) * One) \div tot)
    IN  NormSF(Max2(-5 * One, Min2(5 * One, t)))

\* stats.norm.sf(log_y0Lim[i], loc = log_y0, scale = log_totalErr) for one
\* noise level: log_y0Lim - log_y0 = log(SNRCut*rms/y0), over
\* sqrt(log_y0Err^2 + sigma_int^2) (at least one unit of resolution)
DetectionProb(y0, rms, sigma_int) ==
    LET diff == Ln(SNRCut * y0.den * rms) - Ln(y0.num)
        err == LogY0Err(y0, rms)
        tot == Max2(1, ISqrt(err * err + sigma_int * sigma_int))
        t == IF diff >= 0 THEN (diff * One) \div tot ELSE -(((-diff) * One) \div tot)
    IN  NormSF(Max2(-5 * One, Min2(5 * One, t)))

\* sum over the rows of sf*areaDeg2: the numerator of the area-weighted sum
RECURSIVE WeightedProb(_, _, _)
WeightedProb(tab, y0, sigma_int) ==
    IF Len(tab) = 0 THEN 0
    ELSE DetectionProb(y0, tab[1].y0RMS, sigma_int) * tab[1].areaDeg2
           + WeightedProb(Tail(tab), y0, sigma_int)

\* A surface is compMz[k][j] (k: z, j: log10 M).  NaNValue stands for NaN.
NaNValue == 0 - One
NoSurface == <<>>

\* Whether calcCompleteness raises: np.power(10, log10M)/Mpivot on a str
CalcCompletenessRaises(sr) == sr.MpivotType = "str"

\* calcCompleteness with areaWeights left as areaDeg2, not divided by its sum
calcCompletenessUnnormalised(RMSTab, tileName, cosmo, sr) ==
    LET Cell(k, j) ==
            WeightedProb(RMSTab, y0Grid(sr, cosmo, tileName, k, j), sr.sigma_int)
    IN  [zk \in ZIdx |-> [mj \in MIdx |-> Cell(zk, mj)]]

\* calcCompleteness, method "fast", z = None.  areaWeights is
\* areaDeg2/areaDeg2.sum(): an empty table leaves compMz at zeros, a table of
\* zero total area gives 0/0.
calcCompleteness(RMSTab, tileName, cosmo, sr) ==
    LET Cell(k, j) ==
            IF Len(RMSTab) = 0 THEN 0
            ELSE IF SumArea(RMSTab) = 0 THEN NaNValue
            ELSE WeightedProb(RMSTab, y0Grid(sr, cosmo, tileName, k, j), sr.sigma_int)
                    \div SumArea(RMSTab)
    IN  [zk \in ZIdx |-> [mj \in MIdx |-> Cell(zk, mj)]]

\* ------------------------------------------------------------ SelFn store
\* getRMSTab(tileName, ..., diagnosticsDir = None): the cached table, or None
NoFile == [present |-> FALSE, tab |-> <<>>]
File(tab) == [present |-> TRUE, tab |-> tab]
getRMSTab(files, tileName) == files[tileName]

\* The selFnDict of one tile with the area of the table it holds
TileRecordBinnedArea(tileName, rawTab, downsample) ==
    LET tab == IF downsample THEN downsampleRMSTab(rawTab).tab ELSE rawTab
    IN  [tileName |-> tileName, RMSTab |-> tab, tileAreaDeg2 |-> SumArea(tab),
         compMz |-> NoSurface]

\* The selFnDict of one tile (SelFn.__init__, lines 105-111): tileAreaDeg2 is
\* the area of the table as read, RMSTab the table, downsampled on request.
TileRecord(tileName, rawTab, downsample) ==
    [tileName |-> tileName,
     RMSTab |-> IF downsample THEN downsampleRMSTab(rawTab).tab ELSE rawTab,
     tileAreaDeg2 |-> SumArea(rawTab),
     compMz |-> NoSurface]

\* A tile getting a record whenever a table was found
TileKeptWithTable(files, tileName) == getRMSTab(files, tileName).present

\* Whether the tile gets a record: a table was found and its area is positive
TileKept(files, tileName) ==
    /\ getRMSTab(files, tileName).present
    /\ SumArea(getRMSTab(files, tileName).tab) > 0

\* The records of tiles i.. of self.tileNames, in order
RECURSIVE RecordsFrom(_, _, _)
RecordsFrom(files, downsample, i) ==
    IF i > Len(TileSeq) THEN <<>>
    ELSE IF TileKept(files, TileSeq[i])
         THEN <<TileRecord(TileSeq[i], getRMSTab(files, TileSeq[i]).tab, downsample)>>
                \o RecordsFrom(files, downsample, i + 1)
         ELSE RecordsFrom(files, downsample, i + 1)

\* Whether the loop of __init__ raises: downsampleRMSTab does for a kept tile
InitLoopRaises(files, downsample) ==
    /\ downsample
    /\ \E t \in TileNames :
          TileKept(files, t) /\ downsampleRMSTab(getRMSTab(files, t).tab).status = "error"

\* The total accumulated from the tables the records hold (after downsampling)
RECURSIVE TotalAreaOfTables(_)
TotalAreaOfTables(list) ==
    IF Len(list) = 0 THEN 0 ELSE SumArea(list[1].RMSTab) + TotalAreaOfTables(Tail(list))

\* self.totalAreaDeg2 after the loop: the tileAreaDeg2 of the records, summed
RECURSIVE TotalArea(_)
TotalArea(list) ==
    IF Len(list) = 0 THEN 0 ELSE list[1].tileAreaDeg2 + TotalArea(Tail(list))

\* tileAreas of update
tileAreas(list) == [i \in 1..Len(list) |-> list[i].tileAreaDeg2]

\* fracArea=tileAreas/self.totalAreaDeg2, each weight a fraction [num, den]
fracArea(list, total) == [i \in 1..Len(list) |-> [num |-> list[i].tileAreaDeg2, den |-> total]]

RECURSIVE SumNum(_)
SumNum(ws) == IF Len(ws) = 0 THEN 0 ELSE ws[1].num + SumNum(Tail(ws))

\* sum over the tiles of weight*compMz[k][j], weights by their numerators
RECURSIVE WeightedCell(_, _, _, _)
WeightedCell(ws, cube, k, j) ==
    IF Len(ws) = 0 THEN 0
    ELSE ws[1].num * cube[1][k][j] + WeightedCell(Tail(ws), Tail(cube), k, j)

\* np.average(compMzCube, axis = 0, weights = ws): sum(w*c)/sum(w), the
\* weights' common denominator cancelling; NaN where a tile's cell is NaN.
\* Raises when the weights sum to 0.
AverageRaises(ws) == SumNum(ws) = 0
Average(cube, ws) ==
    LET Cell(k, j) ==
            IF \E i \in 1..Len(cube) : cube[i][k][j] = NaNValue THEN NaNValue
            ELSE WeightedCell(ws, cube, k, j) \div SumNum(ws)
    IN  [zk \in ZIdx |-> [mj \in MIdx |-> Cell(zk, mj)]]

\* The cached tables a selFnDir may hold for a tile
\* (none; the tile missing from a merged table; zero area; one noise level;
\* two levels; three levels in two bins; a bin holding only a zero-area row)
StoreFiles ==
    {NoFile, File(<<>>), File(<<Row(2, 0)>>), File(<<Row(3, 2)>>),
     File(<<Row(1, 1), Row(2, 2)>>), File(<<Row(1, 1), Row(2, 1), Row(4, 2)>>),
     File(<<Row(1, 1), Row(3, 0)>>)}

\* The tables a record of the store can hold, and their surfaces: what
\* calcCompleteness gives for each of them, worked out once.
StoredTables ==
    {f.tab : f \in StoreFiles}
      \cup {downsampleRMSTab(f.tab).tab :
               f \in {g \in StoreFiles : downsampleRMSTab(g.tab).status = "ok"}}
ValidScalings == {sr \in ScalingRelations : ~CalcCompletenessRaises(sr)}
SurfaceOf ==
    [tab \in StoredTables |-> [t \in TileNames |-> [c \in Cosmologies |->
        [sr \in ValidScalings |-> calcCompleteness(tab, t, c, sr)]]]]

\* The loop of update over selFnDictList: every record gets the compMz of
\* the current mockSurvey and scaling relation; at the first record for
\* which calcCompleteness raises the loop stops and the rest stay as they were.
RECURSIVE UpdatedFrom(_, _, _, _)
UpdatedFrom(list, i, cosmo, sr) ==
    IF i > Len(list) THEN <<>>
    ELSE IF CalcCompletenessRaises(sr)
         THEN SubSeq(list, i, Len(list))
         ELSE <<[list[i] EXCEPT !.compMz =
                     SurfaceOf[list[i].RMSTab][list[i].tileName][cosmo][sr]]>>
                \o UpdatedFrom(list, i + 1, cosmo, sr)
\* update recomputing with the configured scaling relation, not the current one
UpdatedRecordsStale(list, cosmo, sr) ==
    IF CalcCompletenessRaises(sr) THEN list ELSE UpdatedFrom(list, 1, cosmo, massOptions)
UpdatedRecords(list, cosmo, sr) == UpdatedFrom(list, 1, cosmo, sr)

compMzCube(list) == [i \in 1..Len(list) |-> list[i].compMz]

\* The relation of an update that gives none taken from the config
scalingRelationOrConfig(oldSr, given) ==
    IF given.given THEN given.dict ELSE massOptions

\* Lines 235-236: self.scalingRelationDict after them
scalingRelationAfter(oldSr, given) == IF given.given THEN given.dict ELSE oldSr

\* The outcome of SelFn.update on a store holding `list`: the new fields and
\* whether the call returned.
UpdateOutcome(list, total, oldCompMz, oldSr, cosmo, given) ==
    LET sr == scalingRelationAfter(oldSr, given)
        newList == UpdatedRecords(list, cosmo, sr)
        ws == fracArea(newList, total)
    IN  IF Len(list) > 0 /\ CalcCompletenessRaises(sr)
        THEN [ok |-> FALSE, error |-> "TypeError", sr |-> sr, list |-> newList,
              compMz |-> oldCompMz]
        ELSE IF AverageRaises(ws)
        THEN [ok |-> FALSE, error |-> "ZeroDivisionError", sr |-> sr, list |-> newList,
              compMz |-> oldCompMz]
        ELSE [ok |-> TRUE, error |-> "", sr |-> sr, list |-> newList,
              compMz |-> Average(compMzCube(newList), ws)]

\* update's scalingRelationDict argument: None, or a dictionary
NoDict == [given |-> FALSE, dict |-> massOptions]
Dict(d) == [given |-> TRUE, dict |-> d]
UpdateArgs == {NoDict} \cup {Dict(d) : d \in ScalingRelations}

\* ----------------------------------------------------- area masks, catalogs
\* The sky is a strip of pixels 0, 1, 2, ...; RightOfSky lies outside every tile.
\* TileBox: the bounding box [RAMin, RAMax) that _setUpAreaMask reads off the
\* tile's WCS; AreaMask: the tile's area mask, pixel by pixel from RAMin.
RightOfSky == 4
TileBox(tileName) ==
    IF tileName = "t1" THEN [RAMin |-> 0, RAMax |-> 2] ELSE [RAMin |-> 1, RAMax |-> 4]
AreaMask(tileName) == IF tileName = "t1" THEN <<1, 0>> ELSE <<0, 1, 1>>

\* One coordinate of checkCoordsInAreaMask: some tile's box holds it and the
\* tile's mask is > 0 at its pixel
InMask(ra) ==
    \E t \in TileNames :
        /\ ra >= TileBox(t).RAMin /\ ra < TileBox(t).RAMax
        /\ AreaMask(t)[ra - TileBox(t).RAMin + 1] > 0

\* What checkCoordsInAreaMask returns for a scalar or an array of coordinates:
\* np.array(inMaskList) when len(inMaskList) > 1, else inMaskList[0]
CoordInputs ==
    {[kind |-> "scalar", coords |-> <<ra>>] : ra \in {0, 1}}
      \cup {[kind |-> "array", coords |-> c] : c \in {<<>>, <<2>>, <<1, RightOfSky>>}}
checkCoordsResult(in) ==
    LET inMaskList == [i \in 1..Len(in.coords) |-> InMask(in.coords[i])]
    IN  IF Len(inMaskList) > 1 THEN [status |-> "ok", kind |-> "array", value |-> inMaskList]
        ELSE IF Len(inMaskList) = 1
             THEN [status |-> "ok", kind |-> "scalar", value |-> <<inMaskList[1]>>]
             ELSE Raised("IndexError")

\* A catalog row: the tile of its template, and where the object sits on the
\* grid.  signals.calcPM500(..., return2D = True) gives a density over the
\* grid that sums to 1: here all of it in the cell of the row.
CatRow(t, k, j) == [tileName |-> t, k |-> k, j |-> j]
Catalogs == {<<>>, <<CatRow("t1", 1, 2)>>, <<CatRow("t1", 1, 2), CatRow("t2", 2, 3)>>}
calcPM500(row) ==
    LET Cell(k, j) == IF k = row.k /\ j = row.j THEN One ELSE 0
    IN  [zk \in ZIdx |-> [mj \in MIdx |-> Cell(zk, mj)]]
AddSurface(a, b) == [k \in ZIdx |-> [j \in MIdx |-> a[k][j] + b[k][j]]]
RECURSIVE catProjectedMz(_)
catProjectedMz(tab) ==
    IF Len(tab) = 0 THEN [k \in ZIdx |-> [j \in MIdx |-> 0]]
    ELSE AddSurface(calcPM500(tab[Len(tab)]), catProjectedMz(SubSeq(tab, 1, Len(tab) - 1)))

\* ------------------------------------------------------------- mass limits
\* A mass limit is in units of 1e14 MSun, fixed-point (One stands for 1e14 MSun).
\* The index of the least distance, the last one on ties
ArgMinLast(row, completenessFraction) ==
    CHOOSE j \in MIdx :
        /\ \A j2 \in MIdx : Abs(row[j] - completenessFraction)
                               <= Abs(row[j2] - completenessFraction)
        /\ \A j2 \in (j + 1)..Len(row) : Abs(row[j2] - completenessFraction)
                                            > Abs(row[j] - completenessFraction)

\* np.argmin(abs(row - completenessFraction)): the first index of the least
\* distance, the first NaN if the row holds one.
ArgMin(row, completenessFraction) ==
    IF \E j \in MIdx : row[j] = NaNValue
    THEN CHOOSE j \in MIdx : row[j] = NaNValue /\ \A j2 \in 1..(j - 1) : row[j2] # NaNValue
    ELSE CHOOSE j \in MIdx :
            /\ \A j2 \in MIdx : Abs(row[j] - completenessFraction)
                                   <= Abs(row[j2] - completenessFraction)
            /\ \A j2 \in 1..(j - 1) : Abs(row[j2] - completenessFraction)
                                         > Abs(row[j] - completenessFraction)

\* np.arange(0.05, 2.1, 0.1) in units of 0.05, and the centres of its bins
zBinEdges == Arange(1, 42, 2)
zBinCentres == [i \in 1..(Len(zBinEdges) - 1) |-> (zBinEdges[i] + zBinEdges[i + 1]) \div 2]

RECURSIVE SumOver(_, _)
SumOver(f, S) ==
    IF S = {} THEN 0
    ELSE LET x == CHOOSE y \in S : TRUE IN f[x] + SumOver(f, S \ {x})

\* np.average(values[S]) without weights: NaN for an empty selection or a NaN entry
Mean(values, S) ==
    IF S = {} \/ \E x \in S : values[x] = NaNValue THEN NaNValue
    ELSE SumOver(values, S) \div Cardinality(S)

\* calcMassLimit(completenessFraction, compMz, mockSurvey, zBinEdges);
\* binEdges = <<>> is the default zBinEdges = []
calcMassLimit(completenessFraction, surface, binEdges) ==
    LET massLimit == [k \in ZIdx |-> One * Mass(ArgMin(surface[k], completenessFraction))]
    IN  IF binEdges # <<>>
        THEN [i \in 1..(Len(binEdges) - 1) |->
                 Mean(massLimit, {k \in ZIdx : zGrid[k] > binEdges[i]
                                                /\ zGrid[k] <= binEdges[i + 1]})]
        ELSE massLimit

\* --------------------------------------------------- completenessByFootprint
FootprintLabels == {"full", "HSC"}

\* np.average(completeness, axis = 0, weights = fracArea) over the tiles'
\* binned mass limits
AverageCurve(curves, ws) ==
    [i \in 1..(Len(zBinEdges) - 1) |->
        IF \E t \in 1..Len(curves) : curves[t][i] = NaNValue THEN NaNValue
        ELSE SumOver([t \in 1..Len(curves) |-> ws[t].num * curves[t][i]], 1..Len(curves))
                \div SumNum(ws)]

\* A footprint skipped as soon as one of its tiles has no area
FootprintSkippedAnyZero(list) ==
    Len(list) = 0 \/ \E t \in 1..Len(list) : list[t].tileAreaDeg2 = 0

\* Whether a footprint is skipped: np.sum(tileAreas) == 0
FootprintSkipped(list) == TotalArea(list) = 0

\* What one footprint that is not skipped writes: the averaged surface
\* (MzCompleteness_<label>.npz), the 90% mass-limit curve and its average over
\* the bins whose centre is in [0.2, 1.0)
FootprintOutput(list) ==
    LET total == TotalArea(list)
        ws == [t \in 1..Len(list) |-> [num |-> tileAreas(list)[t], den |-> total]]
        completeness == [t \in 1..Len(list) |-> calcMassLimit((900 * One) \div 1000,
                                                             list[t].compMz, zBinEdges)]
        massLimit_90Complete == AverageCurve(completeness, ws)
        zMask == {i \in 1..(Len(zBinEdges) - 1) : zBinCentres[i] >= 4 /\ zBinCentres[i] < 20}
    IN  [fracArea |-> ws,
         M500Completeness |-> Average(compMzCube(list), ws),
         massLimit_90Complete |-> massLimit_90Complete,
         averageMassLimit_90Complete |-> Mean(massLimit_90Complete, zMask)]

\* completenessByFootprint(selFnCollection, mockSurvey, diagnosticsDir): the
\* files written, by footprint, and the footprints reported as "no
\* overlapping area"
completenessByFootprint(coll) ==
    [status |-> "ok",
     written |-> [l \in {f \in DOMAIN coll : ~FootprintSkipped(coll[f])} |->
                     FootprintOutput(coll[l])],
     noOverlap |-> {f \in DOMAIN coll : FootprintSkipped(coll[f])}]
\* ------------------------------------------- mass conversion (simsTools.py)
\* A mass of a conversion is a fixed-point number: MassUnit stands for the
\* mass the call is about (the M200m of a round trip, else |M500c|).  A
\* scale factor and a ratio are fixed-point too, MassUnit standing for 1.0.
\* NaNValue stands for NaN.
MassUnit == IPow(10, 7)

\* floor(a*b/c) for 0 <= a, 0 <= b, 0 < c, without an intermediate product
\* wider than the machine integer: <<q, r>> with a*b = q*c + r, bit by bit of b
RECURSIVE MulDivQR(_, _, _)
MulDivQR(a, b, c) ==
    IF b = 0 THEN <<0, 0>>
    ELSE LET p == MulDivQR(a, b \div 2, c)
             t == 2 * p[2] + (b % 2) * a
         IN  <<2 * p[1] + t \div c, t % c>>
MulDiv(a, b, c) == (a \div c) * b + MulDivQR(a % c, b, c)[1]

\* The masses and redshifts at which convertM200mToM500c is tabulated:
\* log10 of the mass in tenths, and z
log10MNodes == <<125, 130, 135, 140, 145, 150, 155, 160, 165>>
zNodes == <<0, 1, 2>>

\* M500c/M200m at the nodes, in units of 1/MassUnit: lines 2063-2077 worked out at
\* each (z, M200m) for H0 = 70, Omega_M0 = 0.3, Omega_L0 = 0.7
M500cOverM200m ==
    << <<5304302, 5214094, 5106201, 4980536, 4837783, 4679232, 4506566, 4321678, 4126535>>,
       <<6326335, 6244660, 6146814, 6032652, 5902726, 5758149, 5600403, 5431174, 5252221>>,
       <<5955827, 5866611, 5760489, 5637741, 5499488, 5347501, 5183963, 5011238, 4831710>> >>

\* The node below, the node at and the node above a mass, in units of that
\* mass over MassUnit: 10^-0.5, 1, 10^0.5
NeighbourNodes == <<3162278, 10000000, 31622777>>

\* convertM200mToM500c(M200m, z)[0], M200m in units of the mass of node n over
\* MassUnit: NaN for a negative mass (np.power of a negative number), else the
\* tabulated M500c/M200m, linear in M200m between the nodes, times M200m
convertM200mToM500c(M200m, n, zi) ==
    IF M200m = NaNValue \/ M200m < 0 THEN NaNValue
    ELSE IF M200m = 0 THEN 0
    ELSE LET i == IF M200m < NeighbourNodes[2] THEN 1 ELSE 2
             ra == M500cOverM200m[zi][n - 2 + i]
             rb == M500cOverM200m[zi][n - 1 + i]
             xa == NeighbourNodes[i]
             xb == NeighbourNodes[i + 1]
             d == Max2(0, Min2(M200m, xb) - xa)
         IN  MulDiv(M200m, ra - MulDiv(ra - rb, d, xb - xa), MassUnit)

\* tolerance=1e-5
tolerance == MassUnit \div 100000

\* a*b for a scale factor or ratio a and a mass or scale factor b
Times(a, b) ==
    IF a = NaNValue \/ b = NaNValue THEN NaNValue
    ELSE IF b < 0 THEN -MulDiv(a, -b, MassUnit)
    ELSE MulDiv(a, b, MassUnit)

\* ratio=M500c/testM500c: NaN if testM500c is, and for 0/0
Ratio(M500c, testM500c) ==
    IF testM500c = NaNValue \/ testM500c = 0 THEN NaNValue
    ELSE MulDiv(M500c, MassUnit, testM500c)

\* The loop ending at a ratio within 1e-2 of 1
LoopConditionLoose(r) == r # NaNValue /\ Abs(MassUnit - r) > 1000 * tolerance

\* while abs(1.0-ratio) > tolerance: false for a NaN
LoopCondition(r) == r # NaNValue /\ Abs(MassUnit - r) > tolerance

\* ----------------------------------------------------------- store actions
\* Each specification below runs one part of the program; the variables of
\* the other parts rest at these values.
Idle == [status |-> "idle"]
DownsampleIdle == dsIn = <<>> /\ dsOut = Idle
CompletenessIdle == ccIn = <<>> /\ ccOut = Idle
MassLimitIdle == mlIn = <<>> /\ mlOut = Idle
FootprintIdle == selFnCollection = <<>> /\ fpOut = Idle
ConvertIdle ==
    /\ cvIn = <<>> /\ scaleFactor = 0 /\ ratio = 0 /\ count = 0 /\ evals = <<>>
    /\ cvPc = "idle" /\ cvOut = Idle
MonteCarloIdle ==
    /\ mcIn = <<>> /\ mcIter = 0 /\ allMz = <<>> /\ detMz = <<>>
    /\ mcPc = "idle" /\ mcOut = Idle
RMSTabIdle ==
    /\ rtFiles = <<>> /\ rtMaps = {} /\ rtMasks = {} /\ rtPersisted = <<>>
    /\ rtLast = Idle
ParseConfigIdle == parseIn = <<>> /\ parseOut = Idle
MPIIdle == mpiIn = <<>> /\ rankState = <<>> /\ gathered = Idle
ConfigIdle == ParseConfigIdle /\ MPIIdle
RestoreIdle ==
    /\ cfgHeap = <<>> /\ parDictRef = 0 /\ origParDictRef = 0
    /\ parsedValue = <<>> /\ cfgLast = Idle
CosmologyIdle == astCalc = <<>> /\ cosmoLast = Idle
FitQIdle == fqIn = <<>> /\ fqRank = <<>> /\ fqFile = Idle /\ fqWrites = 0
AuxIdle == RestoreIdle /\ CosmologyIdle /\ FitQIdle
ExtIdle == MonteCarloIdle /\ RMSTabIdle /\ ConfigIdle /\ AuxIdle
CoreIdle ==
    /\ DownsampleIdle /\ CompletenessIdle /\ MassLimitIdle /\ FootprintIdle
    /\ ConvertIdle
notStoreVars == <<dsVars, ccVars, mlVars, fpVars, cvVars, extVars>>

StoreIdle ==
    /\ cache = [t \in TileNames |-> NoFile]
    /\ downsampleRMS = FALSE
    /\ pc = "idle"
    /\ selFnDictList = <<>>
    /\ totalAreaDeg2 = 0
    /\ scalingRelationDict = massOptions
    /\ mockSurvey = FiducialCosmo
    /\ compMz = NoSurface
    /\ tileTab = "None"
    /\ ret = NotRun
    /\ rmsTabsLoaded = <<>>

InitStore ==
    /\ cache \in [TileNames -> StoreFiles]
    /\ downsampleRMS \in BOOLEAN
    /\ pc = "new"
    /\ selFnDictList = <<>>
    /\ totalAreaDeg2 = 0
    /\ scalingRelationDict = massOptions
    /\ mockSurvey = FiducialCosmo
    /\ compMz = NoSurface
    /\ tileTab = "None"
    /\ ret = NotRun
    /\ rmsTabsLoaded = <<>>

\* The part of the config that __init__ reads beyond massOptions: whether it
\* has the key selFnFootprints, and the labels of the footprints listed there
ParDict(hasKey, labels) == [hasSelFnFootprints |-> hasKey, selFnFootprints |-> labels]
ParDicts ==
    {ParDict(FALSE, <<>>), ParDict(TRUE, <<>>), ParDict(TRUE, <<"HSC">>),
     ParDict(TRUE, <<"KiDS", "DES">>)}

\* The check left at: the key selFnFootprints is in the config
footprintCheckKeyOnly(footprintLabel, parDict) ==
    IF footprintLabel # "None" /\ ~parDict.hasSelFnFootprints
    THEN Raised("No footprints defined in .yml config file")
    ELSE [status |-> "ok"]

\* The sanity check of lines 74-82
footprintCheck(footprintLabel, parDict) ==
    IF footprintLabel # "None"
    THEN IF ~parDict.hasSelFnFootprints
         THEN Raised("No footprints defined in .yml config file")
         ELSE IF footprintLabel \notin {parDict.selFnFootprints[i] :
                                          i \in 1..Len(parDict.selFnFootprints)}
              THEN Raised("Footprint not found in selFnFootprints")
              ELSE [status |-> "ok"]
    ELSE [status |-> "ok"]

\* The tiles the loop of lines 102-113 calls getRMSTab for: all of them, or
\* those up to the first for which downsampleRMSTab raises
LoadedTiles(files, downsample) ==
    LET Raises(i) == /\ downsample
                     /\ TileKept(files, TileSeq[i])
                     /\ downsampleRMSTab(getRMSTab(files, TileSeq[i]).tab).status = "error"
        last == IF \E i \in 1..Len(TileSeq) : Raises(i)
                THEN CHOOSE i \in 1..Len(TileSeq) :
                        Raises(i) /\ \A i2 \in 1..(i - 1) : ~Raises(i2)
                ELSE Len(TileSeq)
    IN  SubSeq(TileSeq, 1, last)

\* SelFn.__init__ (enableCompletenessCalc = True): the footprint check, the
\* records, the total area, the fiducial mockSurvey and the initial update.
\* An exception leaves no object.
Construct(setUpAreaMask, footprintLabel, parDict) ==
    /\ pc = "new"
    /\ LET call == [op |-> "__init__", footprintLabel |-> footprintLabel,
                    parDict |-> parDict]
       IN  IF footprintCheck(footprintLabel, parDict).status = "error"
           THEN /\ pc' = "failed"
                /\ ret' = call @@ footprintCheck(footprintLabel, parDict)
                /\ UNCHANGED <<selFnDictList, totalAreaDeg2, scalingRelationDict,
                               mockSurvey, compMz, tileTab, rmsTabsLoaded>>
           ELSE IF InitLoopRaises(cache, downsampleRMS)
           THEN /\ pc' = "failed"
                /\ ret' = call @@ Raised("ZeroDivisionError")
                /\ rmsTabsLoaded' = LoadedTiles(cache, downsampleRMS)
                /\ UNCHANGED <<selFnDictList, totalAreaDeg2, scalingRelationDict,
                               mockSurvey, compMz, tileTab>>
           ELSE LET list == RecordsFrom(cache, downsampleRMS, 1)
                    total == TotalArea(list)
                    out == UpdateOutcome(list, total, NoSurface, massOptions,
                                         FiducialCosmo, NoDict)
                IN  /\ selFnDictList' = out.list
                    /\ totalAreaDeg2' = total
                    /\ scalingRelationDict' = out.sr
                    /\ mockSurvey' = FiducialCosmo
                    /\ compMz' = out.compMz
                    /\ tileTab' = IF setUpAreaMask THEN "set" ELSE "None"
                    /\ rmsTabsLoaded' = LoadedTiles(cache, downsampleRMS)
                    /\ pc' = IF out.ok THEN "ready" ELSE "failed"
                    /\ ret' = IF out.ok THEN call @@ [status |-> "ok"]
                              ELSE call @@ Raised(out.error)
    /\ UNCHANGED <<cache, downsampleRMS>>
    /\ UNCHANGED notStoreVars

\* SelFn.update(H0, Om0, Ob0, sigma_8, scalingRelationDict)
Update(cosmo, given) ==
    /\ pc = "ready"
    /\ LET out == UpdateOutcome(selFnDictList, totalAreaDeg2, compMz,
                                scalingRelationDict, cosmo, given)
       IN  /\ scalingRelationDict' = out.sr
           /\ mockSurvey' = cosmo
           /\ selFnDictList' = out.list
           /\ compMz' = out.compMz
           /\ ret' = IF out.ok
                     THEN [op |-> "update", given |-> given, cosmo |-> cosmo, status |-> "ok"]
                     ELSE [op |-> "update", given |-> given, cosmo |-> cosmo]
                             @@ Raised(out.error)
    /\ UNCHANGED <<cache, downsampleRMS, pc, totalAreaDeg2, tileTab, rmsTabsLoaded>>
    /\ UNCHANGED notStoreVars

\* projectCatalogToMz keeping its result in self.compMz
ProjectCatalogToMzStoring(tab) ==
    /\ pc = "ready"
    /\ ~(scalingRelationDict.MpivotType = "str" /\ Len(tab) > 0)
    /\ compMz' = catProjectedMz(tab)
    /\ ret' = [op |-> "projectCatalogToMz", status |-> "ok", value |-> catProjectedMz(tab)]
    /\ UNCHANGED <<cache, downsampleRMS, pc, selFnDictList, totalAreaDeg2,
                   scalingRelationDict, mockSurvey, tileTab, rmsTabsLoaded>>
    /\ UNCHANGED notStoreVars

\* SelFn.projectCatalogToMz(tab)
ProjectCatalogToMz(tab) ==
    /\ pc = "ready"
    /\ ret' = IF scalingRelationDict.MpivotType = "str" /\ Len(tab) > 0
              THEN [op |-> "projectCatalogToMz"] @@ Raised("TypeError")
              ELSE [op |-> "projectCatalogToMz", status |-> "ok",
                    value |-> catProjectedMz(tab)]
    /\ UNCHANGED <<cache, downsampleRMS, pc, selFnDictList, totalAreaDeg2,
                   scalingRelationDict, mockSurvey, compMz, tileTab, rmsTabsLoaded>>
    /\ UNCHANGED notStoreVars

\* SelFn.checkCoordsInAreaMask(RADeg, decDeg)
CheckCoordsInAreaMask(in) ==
    /\ pc = "ready"
    /\ tileTab' = "set"                     \* if self.tileTab is None: self._setUpAreaMask()
    /\ ret' = [op |-> "checkCoordsInAreaMask", in |-> in,
                setUpAreaMask |-> (tileTab = "None")] @@ checkCoordsResult(in)
    /\ UNCHANGED <<cache, downsampleRMS, pc, selFnDictList, totalAreaDeg2,
                   scalingRelationDict, mockSurvey, compMz, rmsTabsLoaded>>
    /\ UNCHANGED notStoreVars

Next ==
    \/ \E b \in BOOLEAN, l \in {"None", "HSC"}, p \in ParDicts : Construct(b, l, p)
    \/ \E c \in Cosmologies, g \in UpdateArgs : Update(c, g)
    \/ \E tab \in Catalogs : ProjectCatalogToMz(tab)
    \/ \E in \in CoordInputs : CheckCoordsInAreaMask(in)

Init ==
    /\ InitStore
    /\ DownsampleIdle /\ CompletenessIdle /\ MassLimitIdle /\ FootprintIdle /\ ConvertIdle /\ ExtIdle

Spec == Init /\ [][Next]_vars

\* --------------------------------------------------- SpecDownsample
InitDownsample ==
    /\ dsIn \in RMSTables
    /\ dsOut = NotRun
    /\ StoreIdle /\ CompletenessIdle /\ MassLimitIdle /\ FootprintIdle /\ ConvertIdle /\ ExtIdle

Downsample ==
    /\ dsOut = NotRun
    /\ dsOut' = downsampleRMSTab(dsIn)
    /\ UNCHANGED <<dsIn, storeVars, ccVars, mlVars, fpVars, cvVars, extVars>>

NextDownsample == Downsample

SpecDownsample == InitDownsample /\ [][NextDownsample]_vars

\* C1: downsampleRMSTab preserves total area: the areaDeg2 of the returned
\* table sums to the areaDeg2 of the input table.
C1_DownsamplePreservesArea ==
    dsOut.status = "ok" => SumArea(dsOut.tab) = SumArea(dsIn)


\* --------------------------------------------------- SpecCompleteness
InitCompleteness ==
    /\ ccIn \in [RMSTab : RMSTables, tileName : TileNames, cosmo : Cosmologies,
                  sr : ScalingRelations]
    /\ ccOut = NotRun
    /\ DownsampleIdle /\ StoreIdle /\ MassLimitIdle /\ FootprintIdle /\ ConvertIdle /\ ExtIdle

CalcCompleteness ==
    /\ ccOut = NotRun
    /\ ccOut' = IF CalcCompletenessRaises(ccIn.sr) THEN Raised("TypeError")
                ELSE [status |-> "ok",
                      value |-> calcCompleteness(ccIn.RMSTab, ccIn.tileName,
                                                 ccIn.cosmo, ccIn.sr)]
    /\ UNCHANGED <<ccIn, dsVars, storeVars, mlVars, fpVars, cvVars, extVars>>

NextCompleteness == CalcCompleteness

SpecCompleteness == InitCompleteness /\ [][NextCompleteness]_vars

\* --------------------------------------------------- SpecMassLimit
\* The surfaces handed to calcMassLimit: every cell one of these levels
Levels == {0, (800 * One) \div 1000, One}
Fractions == {One \div 2, (900 * One) \div 1000}

InitMassLimit ==
    /\ mlIn \in [completenessFraction : Fractions,
                  compMz : [ZIdx -> [MIdx -> Levels]],
                  zBinEdges : {<<>>, zBinEdges}]
    /\ mlOut = NotRun
    /\ DownsampleIdle /\ StoreIdle /\ CompletenessIdle /\ FootprintIdle /\ ConvertIdle /\ ExtIdle

CalcMassLimit ==
    /\ mlOut = NotRun
    /\ mlOut' = [status |-> "ok",
                 value |-> calcMassLimit(mlIn.completenessFraction, mlIn.compMz,
                                         mlIn.zBinEdges)]
    /\ UNCHANGED <<mlIn, dsVars, storeVars, ccVars, fpVars, cvVars, extVars>>

NextMassLimit == CalcMassLimit

SpecMassLimit == InitMassLimit /\ [][NextMassLimit]_vars

\* --------------------------------------------------- SpecFootprint
\* The tables a tile can have inside a footprint: no overlap (no noise level
\* left), a level of zero area, one level, two levels, the noisiest level
FootprintTables ==
    {<<>>, <<Row(2, 0)>>, <<Row(3, 2)>>, <<Row(1, 1), Row(2, 2)>>, <<Row(MaxRMS, 1)>>}

\* The selFnDict of a tile inside a footprint, its compMz worked out for the
\* fiducial cosmology and the configured scaling relation
FootprintRecord(tileName, tab) ==
    [tileName |-> tileName, RMSTab |-> tab, tileAreaDeg2 |-> SumArea(tab),
     compMz |-> calcCompleteness(tab, tileName, FiducialCosmo, massOptions)]

\* The lists a footprint can hold: for each tile, no record or one record
FootprintLists ==
    LET Options(t) == {<<>>} \cup {<<FootprintRecord(t, tab)>> : tab \in FootprintTables}
    IN  {a \o b : a \in Options(TileSeq[1]), b \in Options(TileSeq[2])}

InitFootprint ==
    /\ selFnCollection \in [FootprintLabels -> FootprintLists]
    /\ fpOut = NotRun
    /\ DownsampleIdle /\ StoreIdle /\ CompletenessIdle /\ MassLimitIdle /\ ConvertIdle /\ ExtIdle

CompletenessByFootprint ==
    /\ fpOut = NotRun
    /\ fpOut' = completenessByFootprint(selFnCollection)
    /\ UNCHANGED <<selFnCollection, dsVars, storeVars, ccVars, mlVars, cvVars, extVars>>

NextFootprint == CompletenessByFootprint

SpecFootprint == InitFootprint /\ [][NextFootprint]_vars

\* --------------------------------------------------- SpecConvert
\* The calls of convertM500cToM200m(M500c, z):
\*   "tabulated":   M500c is convertM200mToM500c of the mass of node n at
\*                  redshift zNodes[zi] (the second half of a round trip);
\*   "untabulated": M500c > 0 away from the nodes: what convertM200mToM500c
\*                  gives is one of Achieved below;
\*   "nonpositive": M500c <= 0.
ConvertCalls ==
    {[kind |-> "tabulated", n |-> n, zi |-> zi,
      M500c |-> convertM200mToM500c(MassUnit, n, zi)] :
         n \in 2..(Len(log10MNodes) - 1), zi \in 1..Len(zNodes)}
      \cup {[kind |-> "untabulated", n |-> 2, zi |-> 1, M500c |-> MassUnit]}
      \cup {[kind |-> "nonpositive", n |-> 2, zi |-> 1, M500c |-> m] : m \in {0, -MassUnit}}

\* What convertM200mToM500c(M200m, z) can give for the call: for untabulated
\* masses, an M500c that leaves the ratio at 1, at 1 + 1e-5, just above
\* 1 + 1e-5, or at 0.5
Achieved(call, M200m) ==
    IF call.kind = "untabulated"
    THEN {MassUnit, MassUnit - tolerance, MassUnit - tolerance - 1, 2 * MassUnit}
    ELSE {convertM200mToM500c(M200m, call.n, call.zi)}

InitConvert ==
    /\ cvIn \in ConvertCalls
    /\ scaleFactor = 3 * MassUnit          \* scaleFactor=3.0
    /\ ratio = 200 * MassUnit              \* ratio=1e6: far from 1
    /\ count = 0
    /\ evals = <<>>
    /\ cvPc = "loop"
    /\ cvOut = NotRun
    /\ DownsampleIdle /\ StoreIdle /\ CompletenessIdle /\ MassLimitIdle /\ FootprintIdle /\ ExtIdle

\* One pass of the loop body (lines 2092-2097)
Iterate ==
    /\ cvPc = "loop"
    /\ LoopCondition(ratio)
    /\ \E testM500c \in Achieved(cvIn, Times(scaleFactor, cvIn.M500c)) :
          LET newRatio == Ratio(cvIn.M500c, testM500c)
          IN  /\ ratio' = newRatio
              /\ scaleFactor' = Times(scaleFactor, newRatio)
              /\ evals' = Append(evals, newRatio)
    /\ count' = count + 1
    /\ cvPc' = IF count + 1 > 10 THEN "raised" ELSE "loop"
    /\ cvOut' = IF count + 1 > 10 THEN Raised("Exception") ELSE cvOut
    /\ UNCHANGED <<cvIn, dsVars, storeVars, ccVars, mlVars, fpVars, extVars>>

\* The loop left: M200m=scaleFactor*M500c; return M200m
Return ==
    /\ cvPc = "loop"
    /\ ~LoopCondition(ratio)
    /\ cvPc' = "returned"
    /\ cvOut' = [status |-> "ok", value |-> Times(scaleFactor, cvIn.M500c)]
    /\ UNCHANGED <<cvIn, scaleFactor, ratio, count, evals,
                   dsVars, storeVars, ccVars, mlVars, fpVars, extVars>>

NextConvert == Iterate \/ Return

SpecConvert == InitConvert /\ [][NextConvert]_vars

\* --------------------------------------------------- SpecMonteCarlo
\* calcCompleteness(..., method = "Monte Carlo") (lines 689-706), z = None.
\* The names bound where line 698 is evaluated: the parameters of
\* calcCompleteness, the locals assigned before the loop and its index, and
\* the names the module defines or imports.
LocalNames ==
    {"RMSTab", "SNRCut", "tileName", "mockSurvey", "scalingRelationDict", "tckQFitDict",
     "plotFileName", "z", "method", "numDraws", "numIterations", "zRange",
     "halfBinWidth", "binEdges_log10M", "binEdges_z", "allMz", "detMz", "i"}
GlobalNames ==
    {"os", "sys", "resource", "glob", "np", "plt", "atpy", "astCalc", "astCoords",
     "astImages", "astPlots", "astSED", "astStats", "astWCS", "stats", "interpolate",
     "_spline", "ndimage", "optimize", "signals", "maps", "MockSurvey", "plotSettings",
     "startUp", "OrderedDict", "colorcet", "types", "pickle", "pyfits", "time", "IPython",
     "SelFn", "loadAreaMask", "loadRMSMap", "loadMassLimitMap", "loadIntersectionMask",
     "_loadTile", "getTileTotalAreaDeg2", "makeIntersectionMask", "getRMSTab", "downsampleRMSTab",
     "calcTileWeightedAverageNoise", "completenessByFootprint", "makeMzCompletenessPlot",
     "calcMassLimit", "calcCompleteness", "makeMassLimitMap", "makeMassLimitVRedshiftPlot",
     "cumulativeAreaMassLimitPlot", "makeFullSurveyMassLimitMapPlot", "tidyUp"}
NameBound(name) == name \in LocalNames \cup GlobalNames

\* A sample of mockSurvey.drawSample(..., applySNRCut = False): per object the
\* grid cell of its true_M500 and redshift, and its fixed_y_c in noise quanta
Draws == [k : ZIdx, j : MIdx, fixed_y_c : {1, 5 * MaxRMS + 1}]
Samples == {<<d>> : d \in Draws}

\* np.histogram2d over the bins centred on the grid: the objects of the
\* sample in cell (k, j)
Histogram2d(tab, k, j) == Cardinality({n \in 1..Len(tab) : tab[n].k = k /\ tab[n].j = j})
ZeroCounts == [k \in ZIdx |-> [j \in MIdx |-> 0]]
AddCounts(counts, tab) ==
    [k \in ZIdx |-> [j \in MIdx |-> counts[k][j] + Histogram2d(tab, k, j)]]
\* The objects of the sample with fixed_y_c > y0Noise*SNRCut
Detected(tab, y0Noise) ==
    SelectSeq(tab, LAMBDA d : d.fixed_y_c > y0Noise * SNRCut)

\* compMz of lines 703-706: detMz/allMz where allMz is not 0, else 1
MonteCarloRatio(det, all) ==
    [k \in ZIdx |-> [j \in MIdx |->
        IF all[k][j] # 0 THEN (det[k][j] * One) \div all[k][j] ELSE One]]

\* The numIterations a caller asks for
MaxIterations == 2

InitMonteCarlo ==
    /\ mcIn \in [RMSTab : RMSTables, tileName : TileNames, numIterations : 0..MaxIterations]
    /\ mcIter = 0
    /\ allMz = ZeroCounts
    /\ detMz = ZeroCounts
    /\ mcPc = "loop"
    /\ mcOut = NotRun
    /\ CoreIdle /\ StoreIdle /\ RMSTabIdle /\ ConfigIdle /\ AuxIdle

\* One pass of the loop of line 697.  Line 698 evaluates y0Noise first: a
\* name that is not bound raises NameError before drawSample is called.
MonteCarloDraw ==
    /\ mcPc = "loop"
    /\ mcIter < mcIn.numIterations
    /\ IF ~NameBound("y0Noise")
       THEN /\ mcPc' = "raised"
            /\ mcOut' = Raised("NameError")
            /\ UNCHANGED <<mcIter, allMz, detMz>>
       ELSE \E y0Noise \in 1..MaxRMS : \E tab \in Samples :
               /\ allMz' = AddCounts(allMz, tab)
               /\ detMz' = AddCounts(detMz, Detected(tab, y0Noise))
               /\ mcIter' = mcIter + 1
               /\ UNCHANGED <<mcPc, mcOut>>
    /\ UNCHANGED <<mcIn, coreVars, rtVars, cfgVars, auxVars>>

\* The loop left: the ratio of lines 703-706 is returned
MonteCarloReturn ==
    /\ mcPc = "loop"
    /\ mcIter >= mcIn.numIterations
    /\ mcPc' = "returned"
    /\ mcOut' = [status |-> "ok", value |-> MonteCarloRatio(detMz, allMz)]
    /\ UNCHANGED <<mcIn, mcIter, allMz, detMz, coreVars, rtVars, cfgVars, auxVars>>

NextMonteCarlo == MonteCarloDraw \/ MonteCarloReturn

SpecMonteCarlo == InitMonteCarlo /\ [][NextMonteCarlo]_vars

\* --------------------------------------------------- SpecRMSTab
\* getRMSTab (lines 448-505) and the RMSTab part of tidyUp (lines 983-1014)
\* on one selFnDir.  footprintLabel = None is None below.
None == "None"

\* config.allTileNames of the selFnDir: two tiles, and one named after the
\* region it covers, as the footprint of selFnFootprints is
RMSTileSeq == TileSeq \o <<"HSC">>
RMSTiles == {RMSTileSeq[i] : i \in 1..Len(RMSTileSeq)}
selFnFootprints == <<"HSC">>
RMSKeys == RMSTiles \X ({None} \cup {selFnFootprints[i] : i \in 1..Len(selFnFootprints)})

\* selFnDir/RMSTab.fits, with .replace(".fits", "_%s.fits" % (footprintLabel))
\* (lines 464-466)
MergedFileName(footprintLabel) ==
    IF footprintLabel # None THEN "RMSTab" \o "_" \o footprintLabel \o ".fits"
    ELSE "RMSTab.fits"
\* selFnDir/RMSTab_<tileName>.fits, with the same replacement (lines 472-474)
TileFileName(tileName, footprintLabel) ==
    IF footprintLabel # None
    THEN "RMSTab_" \o tileName \o "_" \o footprintLabel \o ".fits"
    ELSE "RMSTab_" \o tileName \o ".fits"
RMSFileNames ==
    {MergedFileName(k[2]) : k \in RMSKeys} \cup {TileFileName(k[1], k[2]) : k \in RMSKeys}

\* A table file: its columns beyond y0RMS and areaDeg2 ("tileName" once
\* tidyUp has merged it) and its rows
TableFile(cols, rows) == [present |-> TRUE, cols |-> cols, tab |-> rows]
PlainRows(rows) == [i \in 1..Len(rows) |-> Row(rows[i].y0RMS, rows[i].areaDeg2)]

\* The pixels of a tile: RMSMap (0: no data), areaMapSqDeg (0: masked) and the
\* intersection mask of the footprint
Pixel(rms, area, mask) == [RMSMap |-> rms, areaMapSqDeg |-> area, intersectMask |-> mask]
PixelMap(tileName) ==
    IF tileName = "t1" THEN <<Pixel(1, 1, 1), Pixel(1, 1, 0), Pixel(2, 1, 1), Pixel(0, 0, 0)>>
    ELSE IF tileName = "t2" THEN <<Pixel(3, 2, 0), Pixel(3, 0, 0)>>
    ELSE <<Pixel(2, 1, 1), Pixel(MaxRMS, 0, 1)>>

\* Lines 486-502: the unique non-zero noise levels of the (masked) RMSMap in
\* increasing order, each with the (masked) area of its pixels
BuildRMSTab(tileName, footprintLabel) ==
    LET px == PixelMap(tileName)
        m(i) == IF footprintLabel # None THEN px[i].intersectMask ELSE 1
        RMSValues == SeqOfSet({px[i].RMSMap * m(i) : i \in 1..Len(px)} \ {0})
        tileArea(v) == SumOver([i \in 1..Len(px) |-> px[i].areaMapSqDeg * m(i)],
                               {i \in 1..Len(px) : px[i].RMSMap * m(i) = v})
    IN  [i \in 1..Len(RMSValues) |-> Row(RMSValues[i], tileArea(RMSValues[i]))]

\* getRMSTab(tileName, photFilterLabel, selFnDir, diagnosticsDir,
\* footprintLabel) on the files of selFnDir; maps are the tiles whose RMSMap
\* and areaMask can be loaded, masks those whose intersection mask is cached.
\* Gives what the call returns or raises, the files it read and wrote, and
\* the files afterwards.
getRMSTabInDir(files, maps, masks, tileName, footprintLabel, diagnosticsDir) ==
    LET merged == MergedFileName(footprintLabel)
        perTile == TileFileName(tileName, footprintLabel)
        built == BuildRMSTab(tileName, footprintLabel)
        Outcome(out, read, wrote, after) ==
            [out |-> out, read |-> read, wrote |-> wrote, files |-> after]
    IN  IF files[merged].present
        THEN IF files[merged].cols # "tileName"
             THEN Outcome(Raised("KeyError"), {merged}, {}, files)
             ELSE Outcome([status |-> "ok", cols |-> "tileName",
                           value |-> SelectSeq(files[merged].tab,
                                               LAMBDA r : r.tileName = tileName)],
                          {merged}, {}, files)
        ELSE IF files[perTile].present
        THEN Outcome([status |-> "ok", cols |-> files[perTile].cols,
                      value |-> files[perTile].tab], {perTile}, {}, files)
        ELSE IF diagnosticsDir = None
        THEN Outcome([status |-> "ok", cols |-> None, value |-> None], {}, {}, files)
        ELSE IF tileName \notin maps
        THEN Outcome(Raised("FileNotFoundError"), {}, {}, files)
        ELSE IF footprintLabel # None /\ tileName \notin masks
        THEN Outcome(Raised("Exception"), {}, {}, files)
        ELSE Outcome([status |-> "ok", cols |-> "", value |-> built], {}, {perTile},
                     [files EXCEPT ![perTile] = TableFile("", built)])

\* The rows of the tiles' tables, each with its tileName, sorted by y0RMS
\* (atpy.vstack, tab.sort('y0RMS'))
RECURSIVE Flatten(_)
Flatten(ss) == IF Len(ss) = 0 THEN <<>> ELSE ss[1] \o Flatten(Tail(ss))
WithTileName(tileName, rows) ==
    [i \in 1..Len(rows) |->
        [y0RMS |-> rows[i].y0RMS, areaDeg2 |-> rows[i].areaDeg2, tileName |-> tileName]]
\* The merged table made of the last of the tiles' tables only
MergedRowsOfLast(tabList) == tabList[Len(tabList)]

MergedRows(tabList) ==
    LET all == Flatten(tabList)
        values == SeqOfSet({all[i].y0RMS : i \in 1..Len(all)})
    IN  Flatten([n \in 1..Len(values) |->
                    SelectSeq(all, LAMBDA r : r.y0RMS = values[n])])

\* One footprint of the loop of tidyUp (lines 993-1014): the per-tile files
\* that exist are merged into RMSTab<label>.fits and removed; add_column
\* raises on a table that already has a tileName column.
TidyFootprint(files, footprint) ==
    LET fp == IF footprint = "" THEN None ELSE footprint
        outFileName == MergedFileName(fp)
        found == SelectSeq(RMSTileSeq, LAMBDA t : files[TileFileName(t, fp)].present)
        tabList == [i \in 1..Len(found) |->
                       WithTileName(found[i], files[TileFileName(found[i], fp)].tab)]
        filesToRemove == {TileFileName(found[i], fp) : i \in 1..Len(found)}
    IN  IF \E i \in 1..Len(found) : files[TileFileName(found[i], fp)].cols = "tileName"
        THEN [ok |-> FALSE, files |-> files]
        ELSE IF Len(tabList) = 0 THEN [ok |-> TRUE, files |-> files]
        ELSE [ok |-> TRUE,
              files |-> [f \in DOMAIN files |->
                            IF f \in filesToRemove THEN NoFile
                            ELSE IF f = outFileName
                                 THEN TableFile("tileName", MergedRows(tabList))
                                 ELSE files[f]]]

\* The loop over footprints = [''] + the labels of selFnFootprints
RECURSIVE TidyFrom(_, _)
TidyFrom(files, footprints) ==
    IF Len(footprints) = 0 THEN [ok |-> TRUE, files |-> files]
    ELSE LET one == TidyFootprint(files, footprints[1])
         IN  IF one.ok THEN TidyFrom(one.files, Tail(footprints)) ELSE one

\* A key for which no call has written a table yet
NotPersisted == [made |-> FALSE, tab |-> <<>>]

InitRMSTab ==
    /\ rtFiles = [f \in RMSFileNames |-> NoFile]
    /\ rtMaps \in {RMSTiles, RMSTiles \ {"t2"}}
    /\ rtMasks \in {RMSTiles, {"t1"}}
    /\ rtPersisted = [k \in RMSKeys |-> NotPersisted]
    /\ rtLast = [op |-> "none"]
    /\ CoreIdle /\ StoreIdle /\ MonteCarloIdle /\ ConfigIdle /\ AuxIdle

\* One call of getRMSTab; rtPersisted records the table a call has written
\* for its key.
GetRMSTab(tileName, footprintLabel, diagnosticsDir) ==
    LET call == getRMSTabInDir(rtFiles, rtMaps, rtMasks, tileName, footprintLabel,
                               diagnosticsDir)
    IN  /\ rtLast # Idle
        /\ rtFiles' = call.files
        /\ rtPersisted' =
              IF call.wrote # {}
              THEN [rtPersisted EXCEPT ![<<tileName, footprintLabel>>] =
                       [made |-> TRUE, tab |-> call.out.value]]
              ELSE rtPersisted
        /\ rtLast' = [op |-> "getRMSTab", tileName |-> tileName,
                      footprintLabel |-> footprintLabel,
                      diagnosticsDir |-> diagnosticsDir,
                      out |-> call.out, read |-> call.read, wrote |-> call.wrote]
        /\ UNCHANGED <<rtMaps, rtMasks, coreVars, mcVars, cfgVars, auxVars>>

\* tidyUp(config): the tables are merged per footprint
TidyUp ==
    LET done == TidyFrom(rtFiles, <<"">> \o selFnFootprints)
    IN  /\ rtLast # Idle
        /\ rtFiles' = done.files
        /\ rtLast' = [op |-> "tidyUp",
                      out |-> IF done.ok THEN [status |-> "ok"] ELSE Raised("ValueError")]
        /\ UNCHANGED <<rtMaps, rtMasks, rtPersisted, coreVars, mcVars, cfgVars, auxVars>>

NextRMSTab ==
    \/ \E k \in RMSKeys : \E d \in {None, "diagnostics"} : GetRMSTab(k[1], k[2], d)
    \/ TidyUp

SpecRMSTab == InitRMSTab /\ [][NextRMSTab]_vars

\* --------------------------------------------------- SpecParseConfig
\* A tile name is a sequence of characters.  str.upper() maps a lower-case
\* letter to its upper-case letter and leaves every other character alone.
upperChar(c) == CASE c = "a" -> "A" [] c = "b" -> "B" [] OTHER -> c

\* The name as the config file has it
asWritten(name) == name

\* name.upper()
upper(name) == [i \in 1..Len(name) |-> upperChar(name[i])]

\* The tile names a config file gives: lower case, upper case, mixed with digits
ConfigNames == {<<"a">>, <<"A">>, <<"a", "1">>, <<"A", "1">>, <<"b", "1">>}

\* A tileDefinitions list has at most MaxTileDefs entries.
MaxTileDefs == 3

NameLists(n) == UNION {[1..k -> ConfigNames] : k \in 0..n}

\* The part of a .yml file that lines 85-95 and 113-119 read: tileDefinitions
\* is absent, a dictionary (automatic tiling) or a list of dictionaries with
\* a tileName each; tileNameList is absent or a list of names.
ConfigFiles ==
    [tileDefinitions :
        {[kind |-> "absent", defs |-> <<>>], [kind |-> "dict", defs |-> <<>>]}
          \cup {[kind |-> "list", defs |-> [i \in 1..Len(l) |-> [tileName |-> l[i]]]] :
                    l \in NameLists(MaxTileDefs)},
     tileNameList :
        {[kind |-> "absent", names |-> <<>>]}
          \cup {[kind |-> "list", names |-> l] : l \in NameLists(1)}]

\* Lines 87-90: tileDef['tileName']=tileDef['tileName'].upper() if
\* tileDefinitions is there and is a list
upperTileDefinitions(td) ==
    IF td.kind = "list"
    THEN [td EXCEPT !.defs = [i \in 1..Len(td.defs) |-> [tileName |-> upper(td.defs[i].tileName)]]]
    ELSE td

\* Lines 91-95: the list of the upper-cased entries, if tileNameList is there
upperTileNameList(tl) ==
    IF tl.kind = "list"
    THEN [tl EXCEPT !.names = [i \in 1..Len(tl.names) |-> upper(tl.names[i])]]
    ELSE tl

\* Lines 115-119: the loop over tileDefinitions from entry i on, checkList
\* holding the names seen: TRUE if it raises
RECURSIVE sanityCheckRaises(_, _, _)
sanityCheckRaises(defs, i, checkList) ==
    IF i > Len(defs) THEN FALSE
    ELSE IF \E k \in 1..Len(checkList) : checkList[k] = defs[i].tileName THEN TRUE
    ELSE sanityCheckRaises(defs, i + 1, Append(checkList, defs[i].tileName))

\* parseConfigFile, as far as tileDefinitions and tileNameList go
parseConfigFile(parDict) ==
    LET td == upperTileDefinitions(parDict.tileDefinitions)
        tl == upperTileNameList(parDict.tileNameList)
    IN  IF td.kind = "list" /\ sanityCheckRaises(td.defs, 1, <<>>)
        THEN Raised("Exception")
        ELSE [status |-> "ok", parDict |-> [tileDefinitions |-> td, tileNameList |-> tl]]

InitParseConfig ==
    /\ parseIn \in ConfigFiles
    /\ parseOut = NotRun
    /\ CoreIdle /\ StoreIdle /\ MonteCarloIdle /\ RMSTabIdle /\ MPIIdle /\ AuxIdle

ParseConfigFile ==
    /\ parseOut = NotRun
    /\ parseOut' = parseConfigFile(parseIn)
    /\ UNCHANGED <<parseIn, coreVars, mcVars, rtVars, mpiVars, auxVars>>

NextParseConfig == ParseConfigFile

SpecParseConfig == InitParseConfig /\ [][NextParseConfig]_vars

\* --------------------------------------------------- SpecMPI
\* A job of `processes` processes, each constructing a NemoConfig with the
\* same arguments and then working through its tileNames; the results are
\* gathered at rank 0 once every process has got there.
\* An MPI job has at most MaxSize processes and at most MaxMPITiles tiles.
MaxSize == 3
MaxMPITiles == 4

\* The tile names every process starts from (lines 263, 273, 280)
MPITileNames(n) == [i \in 1..n |-> "T" \o ToString(i)]

MPIJobs ==
    {j \in [processes : 1..MaxSize,
            tileNames : {MPITileNames(n) : n \in 1..MaxMPITiles},
            MPIEnabled : BOOLEAN,
            divideTilesByProcesses : BOOLEAN,
            strictMPIExceptions : BOOLEAN] :
        j.MPIEnabled \/ j.processes = 1}

Ranks == 0..(mpiIn.processes - 1)

\* An exception is known here by its args
Exceptions == {[args |-> <<"message">>], [args |-> <<>>]}

\* Lines 291-299 with every tile appended to the list of rank 0
rankExtNamesAllAtRoot(tileNames, size) == [r \in {0} |-> tileNames]

\* Lines 291-299: rankExtNames after the loop over tileNames from entry i on
RECURSIVE rankExtNamesFrom(_, _, _, _, _)
rankExtNamesFrom(tileNames, size, i, rankCounter, rankExt) ==
    IF i > Len(tileNames) THEN rankExt
    ELSE LET withKey == IF rankCounter \in DOMAIN rankExt THEN rankExt
                        ELSE [r \in DOMAIN rankExt \cup {rankCounter} |->
                                 IF r \in DOMAIN rankExt THEN rankExt[r] ELSE <<>>]
             appended == [withKey EXCEPT ![rankCounter] = Append(@, tileNames[i])]
             nextCounter == IF rankCounter + 1 > size - 1 THEN 0 ELSE rankCounter + 1
         IN  rankExtNamesFrom(tileNames, size, i + 1, nextCounter, appended)

rankExtNames(tileNames, size) ==
    rankExtNamesFrom(tileNames, size, 1, 0, [r \in {} |-> <<>>])

\* Lines 286-303: the tileNames of the process of that rank
dividedTileNames(job, rank, size) ==
    IF job.MPIEnabled /\ job.divideTilesByProcesses
    THEN LET rankExt == rankExtNames(job.tileNames, size)
         IN  IF rank \in DOMAIN rankExt THEN rankExt[rank] ELSE <<>>
    ELSE job.tileNames

\* mpi_excepthook (lines 177-180) called with an exception t: it calls the
\* previous hook, prints t.args[0], which is an IndexError for empty args,
\* and only then calls MPI.COMM_WORLD.Abort(1)
mpi_excepthook(t) == IF Len(t.args) = 0 THEN "IndexError" ELSE "Abort"

ProcessStart ==
    [pc |-> "start", configured |-> FALSE, excepthook |-> "sys_excepthook",
     rank |-> 0, size |-> 1, tileNames |-> <<>>, allTileNames |-> <<>>,
     next |-> 1, results |-> <<>>, uncaught |-> FALSE]

InitMPI ==
    /\ mpiIn \in MPIJobs
    /\ rankState = [r \in Ranks |-> ProcessStart]
    /\ gathered = NotRun
    /\ CoreIdle /\ StoreIdle /\ MonteCarloIdle /\ RMSTabIdle /\ ParseConfigIdle /\ AuxIdle

\* An exception t that nothing catches in process r, whose state is st when
\* it is raised: sys.excepthook runs, and the process ends; Abort ends every
\* process that has not ended yet
Uncaught(r, st, t) ==
    IF st.excepthook = "mpi_excepthook" /\ mpi_excepthook(t) = "Abort"
    THEN [q \in Ranks |->
            IF q = r THEN [st EXCEPT !.pc = "aborted", !.uncaught = TRUE]
            ELSE IF rankState[q].pc \in {"raised", "finished"} THEN rankState[q]
            ELSE [rankState[q] EXCEPT !.pc = "aborted"]]
    ELSE [rankState EXCEPT ![r] = [st EXCEPT !.pc = "raised", !.uncaught = TRUE]]

\* NemoConfig.__init__ in process r
NemoConfigInit(r) ==
    /\ rankState[r].pc = "start"
    /\ LET hooked == [rankState[r] EXCEPT
                         !.excepthook = IF mpiIn.MPIEnabled /\ mpiIn.strictMPIExceptions
                                        THEN "mpi_excepthook" ELSE @,
                         !.rank = IF mpiIn.MPIEnabled THEN r ELSE 0,
                         !.size = IF mpiIn.MPIEnabled THEN mpiIn.processes ELSE 1]
       IN  IF mpiIn.MPIEnabled /\ hooked.size = 1
           THEN rankState' = Uncaught(r, hooked, [args |-> <<"message">>])
           ELSE rankState' = [rankState EXCEPT ![r] =
                    [hooked EXCEPT !.pc = "running",
                                   !.configured = TRUE,
                                   !.allTileNames = mpiIn.tileNames,
                                   !.tileNames = dividedTileNames(mpiIn, hooked.rank, hooked.size)]]
    /\ UNCHANGED <<mpiIn, gathered, coreVars, mcVars, rtVars, parseVars, auxVars>>

\* Process r works on its next tile: it gets the tile's result, or an
\* exception that nothing catches is raised
ProcessTile(r) ==
    /\ rankState[r].pc = "running"
    /\ rankState[r].next <= Len(rankState[r].tileNames)
    /\ \/ rankState' = [rankState EXCEPT
                           ![r].results = Append(@, rankState[r].tileNames[rankState[r].next]),
                           ![r].next = @ + 1]
       \/ \E t \in Exceptions : rankState' = Uncaught(r, rankState[r], t)
    /\ UNCHANGED <<mpiIn, gathered, coreVars, mcVars, rtVars, parseVars, auxVars>>

\* Process r has done its tiles and waits at the gather
ArriveAtGather(r) ==
    /\ rankState[r].pc = "running"
    /\ rankState[r].next > Len(rankState[r].tileNames)
    /\ rankState' = [rankState EXCEPT ![r].pc = "gather"]
    /\ UNCHANGED <<mpiIn, gathered, coreVars, mcVars, rtVars, parseVars, auxVars>>

\* comm.gather(..., root = 0): it completes when every process has called it
Gather ==
    /\ \A r \in Ranks : rankState[r].pc = "gather"
    /\ gathered' = [status |-> "ok", value |-> [r \in Ranks |-> rankState[r].results]]
    /\ rankState' = [r \in Ranks |-> [rankState[r] EXCEPT !.pc = "finished"]]
    /\ UNCHANGED <<mpiIn, coreVars, mcVars, rtVars, parseVars, auxVars>>

NextMPI ==
    \/ \E r \in Ranks : NemoConfigInit(r)
    \/ \E r \in Ranks : ProcessTile(r)
    \/ \E r \in Ranks : ArriveAtGather(r)
    \/ Gather

SpecMPI == InitMPI /\ [][NextMPI]_vars

\* --------------------------------------------------- SpecRestore
\* The variables of the specifications above, resting
baseVars == <<coreVars, mcVars, rtVars, cfgVars>>
BaseIdle == CoreIdle /\ StoreIdle /\ MonteCarloIdle /\ RMSTabIdle /\ ConfigIdle

\* parDict is a dictionary object holding values and, under mapFilters, another
\* dictionary object (the params of a filter); objects live at addresses, so
\* that two names can share one object.  At most MaxObjects objects exist.
MaxObjects == 6
Addrs == 1..MaxObjects
Free == [kind |-> "free"]
ParDictObject(photFilter, GNFWParams, mapFilters) ==
    [kind |-> "parDict", photFilter |-> photFilter, GNFWParams |-> GNFWParams,
     mapFilters |-> mapFilters]
ParamsObject(noiseGridArcmin, GNFWParams) ==
    [kind |-> "params", noiseGridArcmin |-> noiseGridArcmin, GNFWParams |-> GNFWParams]

\* The address a new object gets
Alloc(heap) ==
    CHOOSE a \in Addrs : heap[a] = Free /\ \A b \in Addrs : b < a => heap[b] # Free

\* The dictionary at an address as a value, nested dictionary included
ValueOf(heap, a) ==
    [photFilter |-> heap[a].photFilter, GNFWParams |-> heap[a].GNFWParams,
     params |-> [noiseGridArcmin |-> heap[heap[a].mapFilters].noiseGridArcmin,
                 GNFWParams |-> heap[heap[a].mapFilters].GNFWParams]]

\* copy.copy: a new dictionary holding the same objects
shallowcopy(heap, a) ==
    LET n == Alloc(heap)
    IN  [heap |-> [heap EXCEPT ![n] = heap[a]], addr |-> n]

\* copy.deepcopy: a new dictionary holding copies of the objects
deepcopy(heap, a) ==
    LET n1 == Alloc(heap)
        heap1 == [heap EXCEPT ![n1] = heap[heap[a].mapFilters]]
        n2 == Alloc(heap1)
    IN  [heap |-> [heap1 EXCEPT ![n2] = [heap[a] EXCEPT !.mapFilters = n1]], addr |-> n2]

\* The objects no name reaches any more are gone
Collect(heap, roots) ==
    [a \in Addrs |->
        IF a \in roots \/ \E r \in roots : heap[r].mapFilters = a THEN heap[a] ELSE Free]

\* What a config file gives for the keys modelled, and what a caller sets them to
PhotFilters == {"None", "f1", "f2"}
NoiseGrids == {0, 20, 40}
ParsedGNFWParams == {"absent", "custom"}

\* The state at line 192: parDict is what parseConfigFile returned
InitRestore ==
    /\ \E f \in PhotFilters \ {"f2"}, n \in NoiseGrids \ {40}, g \in ParsedGNFWParams :
          /\ cfgHeap = [a \in Addrs |->
                           IF a = 1 THEN ParamsObject(n, "absent")
                           ELSE IF a = 2 THEN ParDictObject(f, g, 1) ELSE Free]
          /\ parsedValue = [photFilter |-> f, GNFWParams |-> g,
                            params |-> [noiseGridArcmin |-> n, GNFWParams |-> "absent"]]
          /\ cfgLast = [op |-> "parseConfigFile", restores |-> 0, before |-> parsedValue]
    /\ parDictRef = 2
    /\ origParDictRef = 0
    /\ BaseIdle /\ CosmologyIdle /\ FitQIdle

\* NemoConfig.__init__, lines 216 and 241-244: the copy kept as _origParDict,
\* then GNFWParams defaulted in parDict and put into the filter's params
NemoConfigParDict ==
    /\ origParDictRef = 0
    /\ LET c == deepcopy(cfgHeap, parDictRef)
           g == IF c.heap[parDictRef].GNFWParams = "absent" THEN "default"
                ELSE c.heap[parDictRef].GNFWParams
           heap1 == [c.heap EXCEPT ![parDictRef].GNFWParams = g]
       IN  /\ cfgHeap' = [heap1 EXCEPT ![heap1[parDictRef].mapFilters].GNFWParams = g]
           /\ origParDictRef' = c.addr
    /\ cfgLast' = [op |-> "__init__", restores |-> 0, before |-> ValueOf(cfgHeap, parDictRef)]
    /\ UNCHANGED <<parDictRef, parsedValue, baseVars, cosmoVars, fitQVars>>

\* config.parDict['photFilter']=f
SetPhotFilter(f) ==
    /\ origParDictRef # 0
    /\ cfgHeap' = [cfgHeap EXCEPT ![parDictRef].photFilter = f]
    /\ cfgLast' = [cfgLast EXCEPT !.op = "set", !.before = ValueOf(cfgHeap, parDictRef)]
    /\ UNCHANGED <<parDictRef, origParDictRef, parsedValue, baseVars, cosmoVars, fitQVars>>

\* config.parDict['mapFilters'][0]['params']['noiseGridArcmin']=n
SetNoiseGrid(n) ==
    /\ origParDictRef # 0
    /\ cfgHeap' = [cfgHeap EXCEPT ![cfgHeap[parDictRef].mapFilters].noiseGridArcmin = n]
    /\ cfgLast' = [cfgLast EXCEPT !.op = "set", !.before = ValueOf(cfgHeap, parDictRef)]
    /\ UNCHANGED <<parDictRef, origParDictRef, parsedValue, baseVars, cosmoVars, fitQVars>>

\* NemoConfig.restoreConfig
RestoreConfig ==
    /\ origParDictRef # 0
    /\ LET c == deepcopy(cfgHeap, origParDictRef)
       IN  /\ parDictRef' = c.addr
           /\ cfgHeap' = Collect(c.heap, {c.addr, origParDictRef})
    /\ cfgLast' = [op |-> "restoreConfig", restores |-> Min2(2, cfgLast.restores + 1),
                   before |-> ValueOf(cfgHeap, parDictRef)]
    /\ UNCHANGED <<origParDictRef, parsedValue, baseVars, cosmoVars, fitQVars>>

NextRestore ==
    \/ NemoConfigParDict
    \/ \E f \in PhotFilters : SetPhotFilter(f)
    \/ \E n \in NoiseGrids : SetNoiseGrid(n)
    \/ RestoreConfig

SpecRestore == InitRestore /\ [][NextRestore]_vars

\* --------------------------------------------------- SpecCosmology
\* astCalc.H0, astCalc.OMEGA_M0, astCalc.OMEGA_L0 (the last two in percent),
\* as astLib sets them, and the values a caller overrides them with
CosmoKeys == {"H0", "OMEGA_M0", "OMEGA_L0"}
astCalcDefaults == [k \in CosmoKeys |-> CASE k = "H0" -> 70 [] k = "OMEGA_M0" -> 30 [] OTHER -> 70]
OverrideValues == [k \in CosmoKeys |-> CASE k = "H0" -> 68 [] k = "OMEGA_M0" -> 25 [] OTHER -> 75]

\* The H0, OmegaM0, OmegaL0 arguments of a call: those that are not None
Overrides == {[k \in K |-> OverrideValues[k]] : K \in SUBSET CosmoKeys}

\* if H0 != None: oldH0=astCalc.H0; astCalc.H0=H0, and so on
WithOverrides(globals, ov) ==
    [k \in CosmoKeys |-> IF k \in DOMAIN ov THEN ov[k] ELSE globals[k]]

\* if H0 != None: astCalc.H0=oldH0, and so on
Restored(globals, old, ov) ==
    [k \in CosmoKeys |-> IF k \in DOMAIN ov THEN old[k] ELSE globals[k]]

\* The arguments of the calls that decide how a call ends
Y0Args == [ov : Overrides, MpivotType : {"float", "str"}, tckQFit : {"tck", "None"}]
M500Args == [ov : Overrides, MpivotType : {"float", "str"}, y0 : {-1, 1},
             mockSurvey : {"MockSurvey", "None"}]

\* y0FromLogM500 on the globals: the globals it leaves and how it ends
y0FromLogM500(globals, args) ==
    IF args.MpivotType = "str"
    THEN [astCalc |-> globals, status |-> "error", error |-> "Exception"]
    ELSE LET changed == WithOverrides(globals, args.ov)
         IN  IF args.tckQFit = "None"
             THEN [astCalc |-> changed, status |-> "error", error |-> "TypeError"]
             ELSE [astCalc |-> Restored(changed, globals, args.ov), status |-> "ok",
                   error |-> ""]

\* calcM500Fromy0 on the globals (applyMFDebiasCorrection = True): the change
\* of lines 1900-1908, the checks of lines 1910-1914, the calls of
\* y0FromLogM500 with the same overrides, the restore of lines 1987-1992
calcM500Fromy0(globals, args) ==
    LET changed == WithOverrides(globals, args.ov)
        inner == y0FromLogM500(changed, [ov |-> args.ov, MpivotType |-> args.MpivotType,
                                          tckQFit |-> "tck"])
    IN  IF args.y0 < 0 \/ args.mockSurvey = "None"
        THEN [astCalc |-> changed, status |-> "error", error |-> "Exception"]
        ELSE IF inner.status = "error"
        THEN inner
        ELSE [astCalc |-> Restored(inner.astCalc, globals, args.ov), status |-> "ok",
              error |-> ""]

InitCosmology ==
    /\ astCalc = astCalcDefaults
    /\ cosmoLast = [op |-> "none", args |-> <<>>, before |-> astCalcDefaults, status |-> "ok"]
    /\ BaseIdle /\ RestoreIdle /\ FitQIdle

Y0FromLogM500(args) ==
    /\ astCalc' = y0FromLogM500(astCalc, args).astCalc
    /\ cosmoLast' = [op |-> "y0FromLogM500", args |-> args, before |-> astCalc,
                     status |-> y0FromLogM500(astCalc, args).status]
    /\ UNCHANGED <<baseVars, restoreVars, fitQVars>>

CalcM500Fromy0(args) ==
    /\ astCalc' = calcM500Fromy0(astCalc, args).astCalc
    /\ cosmoLast' = [op |-> "calcM500Fromy0", args |-> args, before |-> astCalc,
                     status |-> calcM500Fromy0(astCalc, args).status]
    /\ UNCHANGED <<baseVars, restoreVars, fitQVars>>

NextCosmology ==
    \/ \E args \in Y0Args : Y0FromLogM500(args)
    \/ \E args \in M500Args : CalcM500Fromy0(args)

SpecCosmology == InitCosmology /\ [][NextCosmology]_vars

\* --------------------------------------------------- SpecFitQ
\* fitQ called in every process of an MPI job with extNames the tileNames of
\* the process's NemoConfig; filteredMapsDir holds the S/N map of every tile.
FitQJobs ==
    [processes : 2..MaxSize,
     tileNames : {MPITileNames(n) : n \in 1..MaxMPITiles},
     cached : BOOLEAN]

FitQRanks == 0..(fqIn.processes - 1)

\* The Q table fitted for a tile (lines 1556-1625)
QTabOf(extName) == "QTab " \o extName

EmptyDict == [t \in {} |-> ""]
SetItem(dict, key, value) ==
    [k \in DOMAIN dict \cup {key} |-> IF k = key THEN value ELSE dict[k]]

\* QFit.pickle
NoQFit == [present |-> FALSE, QTabDict |-> EmptyDict]
QFitPickle(dict) == [present |-> TRUE, QTabDict |-> dict]

RECURSIVE DictOfTiles(_)
DictOfTiles(tiles) ==
    IF Len(tiles) = 0 THEN EmptyDict
    ELSE SetItem(DictOfTiles(Tail(tiles)), tiles[1], QTabOf(tiles[1]))

\* Lines 1534-1538: extNames as given, or, if it is [], the sorted names of
\* the S/N maps found in filteredMapsDir
extNamesOrGlob(extNames, inFilteredMapsDir) ==
    IF extNames = <<>> THEN inFilteredMapsDir ELSE extNames

\* Lines 1658-1662: QTabDict after the dictionaries of ranks r.. are merged in
RECURSIVE MergedFrom(_, _, _)
MergedFrom(gatheredDicts, r, QTabDict) ==
    IF r \notin DOMAIN gatheredDicts THEN QTabDict
    ELSE MergedFrom(gatheredDicts, r + 1,
                    [k \in DOMAIN QTabDict \cup DOMAIN gatheredDicts[r] |->
                        IF k \in DOMAIN gatheredDicts[r] THEN gatheredDicts[r][k]
                        ELSE QTabDict[k]])

InitFitQ ==
    /\ fqIn \in FitQJobs
    /\ fqRank = [r \in FitQRanks |->
                    [pc |-> "start", sawFile |-> FALSE,
                     extNames |-> dividedTileNames(
                                     [MPIEnabled |-> TRUE, divideTilesByProcesses |-> TRUE,
                                      tileNames |-> fqIn.tileNames], r, fqIn.processes),
                     fitted |-> <<>>, rank_QTabDict |-> EmptyDict, QTabDict |-> EmptyDict]]
    /\ fqFile = IF fqIn.cached THEN QFitPickle(DictOfTiles(fqIn.tileNames)) ELSE NoQFit
    /\ fqWrites = 0
    /\ BaseIdle /\ RestoreIdle /\ CosmologyIdle

\* Lines 1520-1549 and 1671-1680: the start of fitQ in process r up to the
\* test os.path.exists(outFileName), and the whole of the cached branch
FitQStart(r) ==
    /\ fqRank[r].pc = "start"
    /\ LET names == extNamesOrGlob(fqRank[r].extNames, fqIn.tileNames)
       IN  fqRank' = [fqRank EXCEPT ![r] =
              IF ~fqFile.present
              THEN [@ EXCEPT !.pc = "fitting", !.extNames = names]
              ELSE IF r # 0
              THEN [@ EXCEPT !.pc = "exited", !.extNames = names, !.sawFile = TRUE]
              ELSE [@ EXCEPT !.pc = "done", !.extNames = names, !.sawFile = TRUE,
                             !.QTabDict = fqFile.QTabDict]]
    /\ UNCHANGED <<fqIn, fqFile, fqWrites, baseVars, restoreVars, cosmoVars>>

\* One pass of the loop of line 1556 in process r
FitTile(r) ==
    /\ fqRank[r].pc = "fitting"
    /\ Len(fqRank[r].fitted) < Len(fqRank[r].extNames)
    /\ LET extName == fqRank[r].extNames[Len(fqRank[r].fitted) + 1]
       IN  fqRank' = [fqRank EXCEPT
                         ![r].fitted = Append(@, extName),
                         ![r].rank_QTabDict = SetItem(@, extName, QTabOf(extName))]
    /\ UNCHANGED <<fqIn, fqFile, fqWrites, baseVars, restoreVars, cosmoVars>>

\* Process r calls comm.gather(rank_QTabDict, root = 0)
CallGather(r) ==
    /\ fqRank[r].pc = "fitting"
    /\ Len(fqRank[r].fitted) = Len(fqRank[r].extNames)
    /\ fqRank' = [fqRank EXCEPT ![r].pc = "gather"]
    /\ UNCHANGED <<fqIn, fqFile, fqWrites, baseVars, restoreVars, cosmoVars>>

\* The gather completes (lines 1651-1669): the other ranks exit, rank 0
\* merges the dictionaries and pickles the result
GatherQTabDicts ==
    /\ \A r \in FitQRanks : fqRank[r].pc = "gather"
    /\ LET gathered_QTabDicts == [r \in FitQRanks |-> fqRank[r].rank_QTabDict]
           QTabDict == MergedFrom(gathered_QTabDicts, 0, EmptyDict)
       IN  /\ fqRank' = [r \in FitQRanks |->
                            IF r = 0 THEN [fqRank[r] EXCEPT !.pc = "done", !.QTabDict = QTabDict]
                            ELSE [fqRank[r] EXCEPT !.pc = "exited"]]
           /\ fqFile' = QFitPickle(QTabDict)
    /\ fqWrites' = fqWrites + 1
    /\ UNCHANGED <<fqIn, baseVars, restoreVars, cosmoVars>>

NextFitQ ==
    \/ \E r \in FitQRanks : FitQStart(r)
    \/ \E r \in FitQRanks : FitTile(r)
    \/ \E r \in FitQRanks : CallGather(r)
    \/ GatherQTabDicts

SpecFitQ == InitFitQ /\ [][NextFitQ]_vars

\* --------------------------------------------------- SpecSurfaces
\* calcCompleteness, the store and completenessByFootprint side by side: the
\* three places a completeness surface is made.
InitSurfaces == InitCompleteness \/ Init \/ InitFootprint

NextSurfaces ==
    \/ CalcCompleteness
    \/ \E b \in BOOLEAN, l \in {"None", "HSC"}, p \in ParDicts : Construct(b, l, p)
    \/ \E c \in Cosmologies, g \in UpdateArgs : Update(c, g)
    \/ \E tab \in Catalogs : ProjectCatalogToMz(tab)
    \/ \E in \in CoordInputs : CheckCoordsInAreaMask(in)
    \/ CompletenessByFootprint

SpecSurfaces == InitSurfaces /\ [][NextSurfaces]_vars

\* ------------------------------------------------------------- properties
InUnit(surface) ==
    \A k \in ZIdx : \A j \in MIdx : surface[k][j] >= 0 /\ surface[k][j] <= One

\* Weights, each a fraction num/den: every one in [0, 1] and their sum 1
WeightsSumToOne(ws) ==
    /\ \A i \in 1..Len(ws) : ws[i].den > 0 /\ ws[i].num >= 0 /\ ws[i].num <= ws[i].den
    /\ \A i \in 1..Len(ws) : SumNum(ws) = ws[i].den

\* C2: every cell of a surface made by calcCompleteness with method "fast",
\* for positive noise levels and positive total area, is in [0, 1]; so are
\* SelFn.compMz, the per-tile surfaces of the store, and the averaged surface
\* of every footprint whose tiles have positive area.
C2_CompletenessInUnitInterval ==
    /\ (ccOut.status = "ok" /\ SumArea(ccIn.RMSTab) > 0) => InUnit(ccOut.value)
    /\ pc = "ready" =>
          /\ InUnit(compMz)
          /\ \A i \in 1..Len(selFnDictList) : InUnit(selFnDictList[i].compMz)
    /\ fpOut.status = "ok" =>
          \A l \in DOMAIN fpOut.written :
              (\A t \in 1..Len(selFnCollection[l]) : selFnCollection[l][t].tileAreaDeg2 > 0)
                 => InUnit(fpOut.written[l].M500Completeness)

\* C2's case: calcCompleteness has run on a table of several noise levels and
\* positive area, and a cell came out strictly between 0 and 1.
C2_Witness ==
    /\ ccOut.status = "ok"
    /\ Len(ccIn.RMSTab) >= 2
    /\ SumArea(ccIn.RMSTab) > 0
    /\ \E k \in ZIdx : \E j \in MIdx : ccOut.value[k][j] > 0 /\ ccOut.value[k][j] < One

\* C3: the tile weights of an aggregation -- tileAreaDeg2/totalAreaDeg2 in
\* update over the tiles of the store, tileArea/sum(tileAreas) in
\* completenessByFootprint over the tiles of a footprint -- are each in
\* [0, 1] and sum to 1.
C3_TileWeightsSumToOne ==
    /\ pc = "ready" => WeightsSumToOne(fracArea(selFnDictList, totalAreaDeg2))
    /\ fpOut.status = "ok" =>
          \A l \in DOMAIN fpOut.written : WeightsSumToOne(fpOut.written[l].fracArea)

\* C3's case: a store of two tiles of different areas, built with
\* downsampleRMS, in which a record's table no longer holds the tile's area.
C3_Witness ==
    /\ pc = "ready"
    /\ downsampleRMS
    /\ Len(selFnDictList) = 2
    /\ selFnDictList[1].tileAreaDeg2 # selFnDictList[2].tileAreaDeg2
    /\ \E i \in 1..2 : SumArea(selFnDictList[i].RMSTab) # selFnDictList[i].tileAreaDeg2

\* C4: after every call of update that completes (the one of __init__
\* included), SelFn.compMz is the area-weighted mean of the tiles' compMz, and
\* every tile's compMz is what calcCompleteness gives for its table under the
\* cosmology and the scaling relation of that call.
C4_CompMzIsWeightedMeanOfCurrent ==
    (ret.status = "ok" /\ ret.op \in {"__init__", "update"}) =>
        /\ \A i \in 1..Len(selFnDictList) :
              selFnDictList[i].compMz =
                  calcCompleteness(selFnDictList[i].RMSTab, selFnDictList[i].tileName,
                                   mockSurvey, scalingRelationDict)
        /\ \A k \in ZIdx : \A j \in MIdx :
              compMz[k][j] =
                  SumOver([i \in 1..Len(selFnDictList) |->
                              selFnDictList[i].tileAreaDeg2 * selFnDictList[i].compMz[k][j]],
                          1..Len(selFnDictList)) \div totalAreaDeg2

\* C4's case: update has completed on a store of two tiles with a cosmology
\* and a scaling relation other than those of construction.
C4_Witness ==
    /\ ret.status = "ok" /\ ret.op = "update"
    /\ Len(selFnDictList) = 2
    /\ mockSurvey # FiducialCosmo
    /\ scalingRelationDict # massOptions
    /\ selFnDictList[1].compMz # selFnDictList[2].compMz

\* C5: a call of projectCatalogToMz or of checkCoordsInAreaMask leaves the
\* tile records (noise tables, tile areas, per-tile surfaces), the total
\* area, the scaling relation and compMz as they were.
C5_QueriesLeaveStoreUnchanged ==
    [][ret'.op \in {"projectCatalogToMz", "checkCoordsInAreaMask"}
          => UNCHANGED <<selFnDictList, totalAreaDeg2, scalingRelationDict, mockSurvey,
                         compMz>>]_vars

\* C5's case: projectCatalogToMz has returned the projection of a catalog on
\* a store whose compMz is set (and differs from that projection).
C5_Witness ==
    /\ pc = "ready"
    /\ ret.op = "projectCatalogToMz" /\ ret.status = "ok"
    /\ ret.value # compMz
    /\ compMz # NoSurface
    /\ tileTab = "set"

\* C6: for every tile record of the store, the areaDeg2 of its RMSTab sums to
\* its tileAreaDeg2, whether downsampleRMS is True or False.
C6_TableAreaIsTileArea ==
    pc = "ready" =>
        \A i \in 1..Len(selFnDictList) :
            SumArea(selFnDictList[i].RMSTab) = selFnDictList[i].tileAreaDeg2

\* C7: convertM500cToM200m starts from scale factor 3.0; every iteration
\* evaluates convertM200mToM500c once and multiplies the scale factor by the
\* ratio found; it returns scaleFactor*M500c only after an iteration among
\* the first 10 has given |1 - ratio| <= 1e-5, raises only if none of the
\* first 10 has, and never evaluates convertM200mToM500c more than 11 times.
C7_ReturnsConvergedOrRaises ==
    /\ Len(evals) <= 11 /\ Len(evals) = count
    /\ cvPc = "returned" =>
          /\ count >= 1 /\ count <= 10
          /\ evals[count] # NaNValue /\ Abs(MassUnit - evals[count]) <= tolerance
          /\ cvOut.value = Times(scaleFactor, cvIn.M500c)
    /\ cvPc = "raised" =>
          \A i \in 1..10 : evals[i] = NaNValue \/ Abs(MassUnit - evals[i]) > tolerance

\* C8: a round trip: convertM500cToM200m applied to the M500c that
\* convertM200mToM500c gives for M200m does not raise, and what it returns is
\* within 1e-5*M200m of M200m.
C8_RoundTripWithinTolerance ==
    cvIn.kind = "tabulated" =>
        /\ cvPc # "raised"
        /\ cvPc = "returned" =>
              Abs(cvOut.value - MassUnit) * 100000 <= MassUnit

\* C8's case: a round trip at the highest tabulated mass and redshift has
\* returned, after several iterations.
C8_Witness ==
    /\ cvPc = "returned"
    /\ cvIn.kind = "tabulated"
    /\ cvIn.n = Len(log10MNodes) - 1 /\ cvIn.zi = Len(zNodes)
    /\ count >= 3

\* C9: calcMassLimit without zBinEdges gives, for each redshift row k, the
\* mass 10^log10M[j]/1e14 of the grid index j whose compMz[k][j] is nearest
\* to the completeness fraction, the lowest such j on ties.
C9_MassLimitIsNearestGridMass ==
    (mlOut.status = "ok" /\ mlIn.zBinEdges = <<>>) =>
        /\ DOMAIN mlOut.value = ZIdx
        /\ \A k \in ZIdx : \E j \in MIdx :
              /\ mlOut.value[k] = One * IPow(10, log10M[j] - 14)
              /\ \A j2 \in MIdx :
                    Abs(mlIn.compMz[k][j] - mlIn.completenessFraction)
                      <= Abs(mlIn.compMz[k][j2] - mlIn.completenessFraction)
              /\ \A j2 \in MIdx :
                    j2 < j => Abs(mlIn.compMz[k][j2] - mlIn.completenessFraction)
                                > Abs(mlIn.compMz[k][j] - mlIn.completenessFraction)

\* C9's case: calcMassLimit has run without zBinEdges on a surface with a row
\* in which two grid masses are equally near to the fraction.
C9_Witness ==
    /\ mlOut.status = "ok" /\ mlIn.zBinEdges = <<>>
    /\ \E k \in ZIdx : \E j1, j2 \in MIdx :
          /\ j1 < j2
          /\ Abs(mlIn.compMz[k][j1] - mlIn.completenessFraction)
                = Abs(mlIn.compMz[k][j2] - mlIn.completenessFraction)
          /\ \A j \in MIdx : Abs(mlIn.compMz[k][j1] - mlIn.completenessFraction)
                                 <= Abs(mlIn.compMz[k][j] - mlIn.completenessFraction)

\* C10: completenessByFootprint raises nothing; a footprint whose tiles have
\* zero total area is reported and gets no averaged surface and no mass
\* limit; every other footprint gets its outputs, with weights made of its
\* own tiles' areas alone.
C10_ZeroAreaFootprintSkipped ==
    fpOut # NotRun =>
        /\ fpOut.status = "ok"
        /\ \A l \in FootprintLabels :
              LET list == selFnCollection[l]
                  area == SumOver([t \in 1..Len(list) |-> list[t].tileAreaDeg2], 1..Len(list))
              IN  IF area = 0
                  THEN l \in fpOut.noOverlap /\ l \notin DOMAIN fpOut.written
                  ELSE /\ l \notin fpOut.noOverlap
                       /\ l \in DOMAIN fpOut.written
                       /\ fpOut.written[l].fracArea =
                             [t \in 1..Len(list) |->
                                 [num |-> list[t].tileAreaDeg2, den |-> area]]
                       /\ fpOut.written[l].M500Completeness =
                             Average(compMzCube(list), fpOut.written[l].fracArea)

\* C10's case: the call has run on a collection with a footprint of tiles but
\* no area and another footprint that has area, one of its tiles without.
C10_Witness ==
    /\ fpOut.status = "ok"
    /\ \E l \in fpOut.noOverlap : Len(selFnCollection[l]) = 2
    /\ \E l \in DOMAIN fpOut.written :
          \E t \in 1..Len(selFnCollection[l]) : selFnCollection[l][t].tileAreaDeg2 = 0

\* C11: for each footprint with positive total area, the 90% mass-limit curve
\* that completenessByFootprint gives is calcMassLimit(0.9, .) of the
\* footprint's area-weighted average surface on the fixed redshift bins, and
\* the scalar summary is that curve averaged over the bins whose centre is in
\* [0.2, 1.0).
C11_CurveIsLimitOfAverageSurface ==
    fpOut # NotRun =>
        \A l \in DOMAIN fpOut.written :
            LET out == fpOut.written[l]
                zMask == {i \in 1..(Len(zBinEdges) - 1) :
                             zBinCentres[i] >= 4 /\ zBinCentres[i] < 20}
            IN  /\ out.massLimit_90Complete =
                      calcMassLimit((900 * One) \div 1000, out.M500Completeness, zBinEdges)
                /\ out.averageMassLimit_90Complete = Mean(out.massLimit_90Complete, zMask)

C13_MonteCarloCompletes ==
    /\ mcPc # "raised"
    /\ mcPc = "returned" =>
          /\ mcIter = mcIn.numIterations
          /\ mcOut.status = "ok"
          /\ \A k \in ZIdx : \A j \in MIdx :
                allMz[k][j] # 0 =>
                    mcOut.value[k][j] = (detMz[k][j] * One) \div allMz[k][j]

\* C14: getRMSTab is get-or-build per (tile, footprint) key.  A call for a
\* key that has no table persisted yet, with the rasters at hand, builds the
\* table and persists it; every later call for the key returns the persisted
\* table with the same (y0RMS, areaDeg2) rows and writes nothing; a call
\* neither reads nor writes the table file of a different key, and leaves
\* what is persisted for the other keys as it was.
C14_GetOrBuildPerKey ==
    [][(rtLast' # Idle /\ rtLast'.op = "getRMSTab") =>
          LET tileName == rtLast'.tileName
              footprintLabel == rtLast'.footprintLabel
              key == <<tileName, footprintLabel>>
              out == rtLast'.out
              rasters == /\ rtLast'.diagnosticsDir # None
                         /\ tileName \in rtMaps
                         /\ footprintLabel # None => tileName \in rtMasks
          IN  /\ (~rtPersisted[key].made /\ rasters) =>
                    /\ out.status = "ok"
                    /\ out.cols # None
                    /\ PlainRows(out.value) = BuildRMSTab(tileName, footprintLabel)
                    /\ rtPersisted'[key] = [made |-> TRUE, tab |-> out.value]
                    /\ rtFiles'[TileFileName(tileName, footprintLabel)].present
              /\ rtPersisted[key].made =>
                    /\ out.status = "ok"
                    /\ out.cols # None
                    /\ PlainRows(out.value) = rtPersisted[key].tab
                    /\ rtLast'.wrote = {}
                    /\ rtFiles' = rtFiles
              /\ \A k2 \in RMSKeys \ {key} :
                    /\ TileFileName(k2[1], k2[2]) \notin rtLast'.read \cup rtLast'.wrote
                    /\ rtPersisted'[k2] = rtPersisted[k2]
    ]_vars

\* C15: getRMSTab called with diagnosticsDir = None when neither the merged
\* nor the per-tile table file of the key is present fails: an error, not a
\* value.
C15_NoTableNoRasterFails ==
    (rtLast # Idle /\ rtLast.op = "getRMSTab" /\ rtLast.diagnosticsDir = None
        /\ rtLast.read = {} /\ rtLast.wrote = {})
    => rtLast.out.status = "error"

\* C16: constructing SelFn with a footprintLabel other than None raises when
\* the config defines no selFnFootprints or none with that label; the error
\* comes before any tile's noise table is loaded and before any completeness
\* surface is computed.
C16_UndefinedFootprintRaises ==
    (ret # NotRun /\ ret # Idle /\ ret.op = "__init__" /\ ret.footprintLabel # "None"
        /\ (~ret.parDict.hasSelFnFootprints
              \/ \A i \in 1..Len(ret.parDict.selFnFootprints) :
                    ret.parDict.selFnFootprints[i] # ret.footprintLabel))
    => /\ ret.status = "error"
       /\ pc = "failed"
       /\ rmsTabsLoaded = <<>>
       /\ selFnDictList = <<>>
       /\ compMz = NoSurface

\* C16's case: a construction with a footprintLabel that the config's
\* selFnFootprints, which lists other footprints, does not define has raised,
\* on a directory whose tiles have tables.
C16_Witness ==
    /\ pc = "failed"
    /\ ret.op = "__init__" /\ ret.status = "error"
    /\ ret.footprintLabel = "HSC"
    /\ ret.parDict.hasSelFnFootprints /\ Len(ret.parDict.selFnFootprints) > 0
    /\ \A t \in TileNames : cache[t].present /\ SumArea(cache[t].tab) > 0
    /\ rmsTabsLoaded = <<>>

\* The domain check of calcM500Fromy0 (lines 1910-1911): an Exception for
\* y0 < 0, else the call goes on
calcM500Fromy0Check(y0) ==
    IF y0 < 0 THEN Raised("Exception") ELSE [status |-> "ok"]

\* C18: a call given a negative observed signal (calcM500Fromy0 with y0 < 0)
\* or a negative mass (convertM500cToM200m, which calls convertM200mToM500c,
\* with mass < 0) ends in an error for that call and returns no value.
C18_NegativeInputFails ==
    /\ \A y0 \in {-One, -1} : calcM500Fromy0Check(y0).status = "error"
    /\ (cvIn.M500c < 0 /\ cvPc \in {"returned", "raised"})
          => cvOut.status = "error"

\* A name without lower-case letters
IsUpperCase(name) == \A i \in 1..Len(name) : name[i] \notin {"a", "b"}

\* Two names that differ at most in the case of their letters
SameButForCase(n1, n2) ==
    /\ Len(n1) = Len(n2)
    /\ \A i \in 1..Len(n1) :
          n1[i] = n2[i] \/ {n1[i], n2[i]} \in {{"a", "A"}, {"b", "B"}}

\* C17: parseConfigFile raises when two entries of a tileDefinitions list
\* carry the same tileName, names differing only in case being the same name;
\* when it returns, every tileName of tileDefinitions and every entry of
\* tileNameList is upper case and the tileDefinitions names are pairwise
\* distinct.
C17_DuplicateTileNamesRaise ==
    parseOut # NotRun =>
        LET defs == parseIn.tileDefinitions.defs
        IN  /\ (\E i, j \in 1..Len(defs) :
                    i # j /\ SameButForCase(defs[i].tileName, defs[j].tileName))
                 => parseOut.status = "error"
            /\ parseOut.status = "ok" =>
                  LET out == parseOut.parDict
                  IN  /\ out.tileDefinitions.kind = parseIn.tileDefinitions.kind
                      /\ Len(out.tileDefinitions.defs) = Len(defs)
                      /\ \A i \in 1..Len(out.tileDefinitions.defs) :
                            IsUpperCase(out.tileDefinitions.defs[i].tileName)
                      /\ \A i, j \in 1..Len(out.tileDefinitions.defs) :
                            i # j => out.tileDefinitions.defs[i].tileName
                                        # out.tileDefinitions.defs[j].tileName
                      /\ \A i \in 1..Len(out.tileNameList.names) :
                            IsUpperCase(out.tileNameList.names[i])

\* C17's case: a file whose tileDefinitions name one tile "a1" and another
\* "A1", and no two tiles the same as written, has been parsed, and the
\* call raised.
C17_Witness ==
    /\ parseOut.status = "error"
    /\ Len(parseIn.tileDefinitions.defs) = 2
    /\ parseIn.tileDefinitions.defs[1].tileName = <<"a", "1">>
    /\ parseIn.tileDefinitions.defs[2].tileName = <<"A", "1">>

\* The tiles of the full list that rank r gets when tile i (counted from 0)
\* goes to rank i mod size
TilesOfRank(r) ==
    LET n == Len(mpiIn.tileNames)
        k == IF r >= n THEN 0 ELSE (n - r + mpiIn.processes - 1) \div mpiIn.processes
    IN  [m \in 1..k |-> mpiIn.tileNames[r + (m - 1) * mpiIn.processes + 1]]

SeqRange(s) == {s[i] : i \in 1..Len(s)}

\* What C19 says of a state
C19_Partitioned ==
    (mpiIn.MPIEnabled /\ mpiIn.divideTilesByProcesses) =>
        /\ \A r \in Ranks :
              IF rankState[r].configured
              THEN /\ rankState[r].tileNames = TilesOfRank(r)
                   /\ rankState[r].allTileNames = mpiIn.tileNames
                   /\ r >= Len(mpiIn.tileNames) => rankState[r].tileNames = <<>>
              ELSE rankState[r].results = <<>>
        /\ \A r, q \in Ranks :
              (r # q /\ rankState[r].configured /\ rankState[q].configured) =>
                  /\ SeqRange(rankState[r].tileNames) \cap SeqRange(rankState[q].tileNames) = {}
                  /\ Len(rankState[r].tileNames) - Len(rankState[q].tileNames) \in {-1, 0, 1}
        /\ (\A r \in Ranks : rankState[r].configured) =>
              UNION {SeqRange(rankState[r].tileNames) : r \in Ranks} = SeqRange(mpiIn.tileNames)
        /\ \A r \in Ranks : \A i \in 1..Len(rankState[r].results) :
              rankState[r].results[i] \in SeqRange(TilesOfRank(r))

\* What C19 says of a step
C19_Static ==
    \A r \in Ranks :
        rankState[r].configured =>
            /\ rankState'[r].tileNames = rankState[r].tileNames
            /\ rankState'[r].allTileNames = rankState[r].allTileNames

\* C19: with MPI enabled and divideTilesByProcesses set, the tiles are
\* partitioned when NemoConfig is constructed, before any tile is worked on:
\* tile i of the full list goes to rank i mod size, so the tileNames of the
\* ranks are pairwise disjoint, their union is allTileNames, their sizes
\* differ by at most one and a rank beyond the number of tiles has none; no
\* later step changes a rank's tileNames.
C19_StaticPartition == [](C19_Partitioned) /\ [][C19_Static]_vars

\* C19's case: a job of three processes on two tiles, divided, has finished:
\* ranks 0 and 1 worked on one tile each and rank 2, beyond the number of
\* tiles, on none.
C19_Witness ==
    /\ mpiIn.MPIEnabled /\ mpiIn.divideTilesByProcesses
    /\ mpiIn.processes = 3 /\ Len(mpiIn.tileNames) = 2
    /\ gathered.status = "ok"
    /\ gathered.value[0] = <<"T1">> /\ gathered.value[1] = <<"T2">>
    /\ gathered.value[2] = <<>>

\* C20: with MPI enabled and strictMPIExceptions True, an exception that
\* nothing catches in one rank aborts every rank of the job, and nothing is
\* gathered from a job in which a rank has failed.
C20_UncaughtExceptionAbortsJob ==
    (mpiIn.MPIEnabled /\ mpiIn.strictMPIExceptions
        /\ \E r \in Ranks : rankState[r].uncaught)
    => /\ \A r \in Ranks : rankState[r].pc = "aborted"
       /\ gathered = NotRun

\* C21: checkCoordsInAreaMask sets up the bounding boxes and area masks on
\* its first call only, when __init__ did not, and never again; it returns
\* one boolean per coordinate, a scalar for a single point and an array with
\* one entry per coordinate for an array; a coordinate is True iff some
\* tile's bounding box holds it and that tile's area mask is > 0 at its pixel.
C21_LazyIndexOneBooleanPerCoordinate ==
    [][ret'.op = "checkCoordsInAreaMask" =>
          /\ ret'.setUpAreaMask = (tileTab = "None")
          /\ tileTab' = "set"
          /\ ret'.status = "ok"
          /\ ret'.kind = ret'.in.kind
          /\ Len(ret'.value) = Len(ret'.in.coords)
          /\ \A i \in 1..Len(ret'.in.coords) :
                ret'.value[i] =
                   (\E t \in TileNames :
                       /\ TileBox(t).RAMin <= ret'.in.coords[i]
                       /\ ret'.in.coords[i] < TileBox(t).RAMax
                       /\ AreaMask(t)[ret'.in.coords[i] - TileBox(t).RAMin + 1] > 0)]_vars

\* C22: restoreConfig makes parDict equal to the dictionary parsed at
\* construction, whatever was changed in parDict before, nested values
\* included; no change of parDict, before or after a restore, alters the
\* saved original, so every restore gives the same parDict.
C22_RestoreGivesParsedConfig ==
    origParDictRef # 0 =>
        /\ ValueOf(cfgHeap, origParDictRef) = parsedValue
        /\ cfgLast.op = "restoreConfig" => ValueOf(cfgHeap, parDictRef) = parsedValue
        /\ parDictRef # origParDictRef
        /\ cfgHeap[parDictRef].mapFilters # cfgHeap[origParDictRef].mapFilters

\* C22's case: a second restoreConfig, on a parDict whose photFilter and
\* nested noiseGridArcmin had both been changed after the first.
C22_Witness ==
    /\ cfgLast.op = "restoreConfig" /\ cfgLast.restores = 2
    /\ cfgLast.before.photFilter # parsedValue.photFilter
    /\ cfgLast.before.params.noiseGridArcmin # parsedValue.params.noiseGridArcmin
    /\ ValueOf(cfgHeap, parDictRef) = parsedValue

\* The error in log-signal at signal y0 and noise level rms: 1/SNR with
\* SNR = y0/rms, and 1/SNRCut where SNR < SNRCut
ExpectedLogErr(y0, rms) ==
    IF y0.num < SNRCut * (y0.den * rms) THEN One \div SNRCut
    ELSE (One * (y0.den * rms)) \div y0.num

\* The upper tail, at the threshold log(SNRCut*rms), of the normal around
\* log y0 whose scale is sqrt(error^2 + sigma_int^2)
ExpectedTail(y0, rms, sigma_int) ==
    LET threshold == Ln(SNRCut * y0.den * rms)
        logY0 == Ln(y0.num)
        scale == Max2(1, ISqrt(ExpectedLogErr(y0, rms) * ExpectedLogErr(y0, rms)
                                 + sigma_int * sigma_int))
        t == IF threshold >= logY0 THEN ((threshold - logY0) * One) \div scale
             ELSE -(((logY0 - threshold) * One) \div scale)
    IN  NormSF(Max2(-5 * One, Min2(5 * One, t)))

RECURSIVE ExpectedSum(_, _, _)
ExpectedSum(tab, y0, sigma_int) ==
    IF Len(tab) = 0 THEN 0
    ELSE tab[Len(tab)].areaDeg2 * ExpectedTail(y0, tab[Len(tab)].y0RMS, sigma_int)
           + ExpectedSum(SubSeq(tab, 1, Len(tab) - 1), y0, sigma_int)

\* C23: in calcCompleteness (method "fast") the error in log-signal at a
\* noise level is 1/SNR, SNR = y0/noise level, and 1/SNRCut wherever
\* SNR < SNRCut; the total error is sqrt(error^2 + sigma_int^2), the
\* threshold is log(SNRCut*noise level), and a cell of the surface is the sum
\* over the noise levels of areaDeg2 over the table's area times the normal
\* upper tail at the threshold.
C23_AreaWeightedTailSum ==
    (ccOut.status = "ok" /\ SumArea(ccIn.RMSTab) > 0) =>
        \A k \in ZIdx : \A j \in MIdx :
            ccOut.value[k][j] =
               ExpectedSum(ccIn.RMSTab, y0Grid(ccIn.sr, ccIn.cosmo, ccIn.tileName, k, j),
                           ccIn.sr.sigma_int) \div SumArea(ccIn.RMSTab)

\* C23's case: calcCompleteness has run with intrinsic scatter on a table of
\* two noise levels of positive area, and at one cell the signal is below the
\* cut at one level and above it at the other.
C23_Witness ==
    /\ ccOut.status = "ok"
    /\ ccIn.sr.sigma_int > 0
    /\ Len(ccIn.RMSTab) = 2
    /\ ccIn.RMSTab[1].areaDeg2 > 0 /\ ccIn.RMSTab[2].areaDeg2 > 0
    /\ \E k \in ZIdx : \E j \in MIdx :
          LET y0 == y0Grid(ccIn.sr, ccIn.cosmo, ccIn.tileName, k, j)
          IN  /\ \E i \in 1..2 : y0.num < SNRCut * y0.den * ccIn.RMSTab[i].y0RMS
              /\ \E i \in 1..2 : y0.num > SNRCut * y0.den * ccIn.RMSTab[i].y0RMS
              /\ ccOut.value[k][j] > 0 /\ ccOut.value[k][j] < One

\* C24: after a call of y0FromLogM500 or calcM500Fromy0, with or without
\* H0 / OmegaM0 / OmegaL0 overrides, astCalc.H0, OMEGA_M0 and OMEGA_L0 have
\* the values they had before the call, whether the call returned or raised.
C24_CosmologyRestoredAfterCall ==
    cosmoLast.op \in {"y0FromLogM500", "calcM500Fromy0"} => astCalc = cosmoLast.before

\* The tiles of rank r in the job of fitQ: tile i (from 0) goes to rank
\* i mod processes
OwnTiles(r) ==
    {fqIn.tileNames[i] : i \in {n \in 1..Len(fqIn.tileNames) : (n - 1) % fqIn.processes = r}}

\* C25: in fitQ under MPI with no cached Q fit, each rank fits Q tables for
\* its own tiles only; the dictionaries of the ranks are combined at one
\* gather, after which only rank 0 goes on, merging them and writing the
\* cache exactly once; the merged dictionary has one entry for every tile of
\* every rank, none lost and none overwritten; every rank takes the same
\* branch at the existence check, so no rank waits at the gather for a rank
\* that has left.
C25_OwnTilesOneGatherOneWrite ==
    ~fqIn.cached =>
        /\ \A r \in FitQRanks :
              /\ \A i \in 1..Len(fqRank[r].fitted) : fqRank[r].fitted[i] \in OwnTiles(r)
              /\ ~fqRank[r].sawFile
              /\ (r # 0 => fqRank[r].pc # "done")
        /\ fqWrites <= 1
        /\ fqWrites = 1 =>
              /\ fqRank[0].pc = "done"
              /\ \A r \in FitQRanks \ {0} : fqRank[r].pc = "exited"
              /\ fqFile = QFitPickle(fqRank[0].QTabDict)
              /\ DOMAIN fqRank[0].QTabDict = {fqIn.tileNames[i] : i \in 1..Len(fqIn.tileNames)}
              /\ \A t \in DOMAIN fqRank[0].QTabDict : fqRank[0].QTabDict[t] = QTabOf(t)
              /\ \A r, q \in FitQRanks :
                    r # q => DOMAIN fqRank[r].rank_QTabDict \cap DOMAIN fqRank[q].rank_QTabDict = {}
        /\ (\E r \in FitQRanks : fqRank[r].pc = "gather") =>
              \A q \in FitQRanks : fqRank[q].pc \in {"start", "fitting", "gather"}

\* C26: the scaling relation of SelFn is sticky: an update called without
\* scalingRelationDict computes with the relation the store holds, which is
\* the one given to the most recent update that gave one, or the config's
\* massOptions if none did; a relation given to an update replaces it and
\* stays until the next update that gives one.
C26_ScalingRelationSticky ==
    [][/\ (ret'.op = "__init__" /\ ret'.status = "ok") => scalingRelationDict' = massOptions
       /\ ret'.op = "update" =>
             LET sr == IF ret'.given.given THEN ret'.given.dict ELSE scalingRelationDict
             IN  /\ scalingRelationDict' = sr
                 /\ ret'.status = "ok" =>
                       \A i \in 1..Len(selFnDictList') :
                           selFnDictList'[i].compMz =
                              calcCompleteness(selFnDictList'[i].RMSTab,
                                               selFnDictList'[i].tileName, ret'.cosmo, sr)
       /\ ret'.op \notin {"__init__", "update"} => scalingRelationDict' = scalingRelationDict
      ]_vars

\* C26's case: an update without scalingRelationDict has returned on a store
\* whose relation, given by an earlier update, is not the config's, and the
\* surface of the first tile is the one of that relation, which differs from
\* the one the config's relation gives.
C26_Witness ==
    /\ pc = "ready"
    /\ ret.op = "update" /\ ret.status = "ok" /\ ~ret.given.given
    /\ scalingRelationDict # massOptions
    /\ Len(selFnDictList) > 0
    /\ selFnDictList[1].compMz =
          calcCompleteness(selFnDictList[1].RMSTab, selFnDictList[1].tileName,
                           mockSurvey, scalingRelationDict)
    /\ selFnDictList[1].compMz #
          calcCompleteness(selFnDictList[1].RMSTab, selFnDictList[1].tileName,
                           mockSurvey, massOptions)

\* --------------------------------------------------- SpecUpdateRaises
\* The store with, next to the TypeError that a scaling relation with a
\* string Mpivot gives at the first record, an exception coming out of
\* calcCompleteness at any record of the loop of lines 240-244 (the arrays of
\* lines 731 and 737 not being allocated, an interrupt).

\* The records after the loop was left at record k
UpdateRolledBack(list, k, cosmo, sr) == list

\* Lines 240-244 left by an exception at record k: the records before k
\* have their new compMz (line 242 assigns into the record), the others
\* are as they were.
UpdateRaisedAt(list, k, cosmo, sr) ==
    UpdatedRecords(SubSeq(list, 1, k - 1), cosmo, sr) \o SubSeq(list, k, Len(list))

\* SelFn.update(H0, Om0, Ob0, sigma_8, scalingRelationDict) with
\* calcCompleteness raising at record k
UpdateRaisesAt(cosmo, given, k) ==
    /\ pc = "ready"
    /\ k \in 1..Len(selFnDictList)
    /\ LET sr == scalingRelationAfter(scalingRelationDict, given)
       IN  /\ ~CalcCompletenessRaises(sr)
           /\ scalingRelationDict' = sr
           /\ mockSurvey' = cosmo
           /\ selFnDictList' = UpdateRaisedAt(selFnDictList, k, cosmo, sr)
           /\ ret' = [op |-> "update", given |-> given, cosmo |-> cosmo, record |-> k]
                        @@ Raised("MemoryError")
    /\ UNCHANGED <<cache, downsampleRMS, pc, totalAreaDeg2, tileTab, rmsTabsLoaded, compMz>>
    /\ UNCHANGED notStoreVars

NextUpdateRaises ==
    \/ \E b \in BOOLEAN, l \in {"None", "HSC"}, p \in ParDicts : Construct(b, l, p)
    \/ \E c \in Cosmologies, g \in UpdateArgs : Update(c, g)
    \/ \E c \in Cosmologies, g \in UpdateArgs, k \in 1..Cardinality(TileNames) :
          UpdateRaisesAt(c, g, k)

SpecUpdateRaises == Init /\ [][NextUpdateRaises]_vars

\* The record at which calcCompleteness raised in the update that `r` reports
FailingRecord(r) == IF r.error = "TypeError" THEN 1 ELSE r.record

\* C27: update is not atomic on failure: when calcCompleteness raises for a
\* record during update, compMz keeps the value it had before the call, the
\* scaling relation and the cosmology of mockSurvey are the new ones, the
\* records before the failing one have the compMz of the new parameters and
\* the failing record and those after it are as they were.
C27_UpdateNotAtomicOnFailure ==
    [][(ret'.op = "update" /\ ret'.status = "error"
          /\ ret'.error \in {"TypeError", "MemoryError"}) =>
         LET sr == IF ret'.given.given THEN ret'.given.dict ELSE scalingRelationDict
             k == FailingRecord(ret')
         IN  /\ compMz' = compMz
             /\ scalingRelationDict' = sr
             /\ mockSurvey' = ret'.cosmo
             /\ Len(selFnDictList') = Len(selFnDictList)
             /\ k \in 1..Len(selFnDictList)
             /\ \A i \in 1..(k - 1) :
                   selFnDictList'[i] =
                      [selFnDictList[i] EXCEPT !.compMz =
                          calcCompleteness(selFnDictList[i].RMSTab,
                                           selFnDictList[i].tileName, ret'.cosmo, sr)]
             /\ \A i \in k..Len(selFnDictList) : selFnDictList'[i] = selFnDictList[i]
      ]_vars

\* C27's case: an update has failed at the second record, the first record
\* has the surface of the parameters the store now holds, the second has a
\* surface that is not the one of these parameters, and compMz is not the
\* average of the surfaces the records hold.
C27_Witness ==
    /\ pc = "ready"
    /\ ret.op = "update" /\ ret.status = "error" /\ ret.error = "MemoryError"
    /\ ret.record = 2
    /\ mockSurvey = ret.cosmo
    /\ selFnDictList[1].compMz =
          calcCompleteness(selFnDictList[1].RMSTab, selFnDictList[1].tileName,
                           mockSurvey, scalingRelationDict)
    /\ selFnDictList[2].compMz #
          calcCompleteness(selFnDictList[2].RMSTab, selFnDictList[2].tileName,
                           mockSurvey, scalingRelationDict)
    /\ compMz # Average(compMzCube(selFnDictList), fracArea(selFnDictList, totalAreaDeg2))

\* A table with rows, all of one noise level
OneNoiseLevel(tab) ==
    /\ Len(tab) > 0
    /\ \A i, j \in 1..Len(tab) : tab[i].y0RMS = tab[j].y0RMS

\* The surface that is 0 at every grid point
ZeroSurface == [zk \in ZIdx |-> [mj \in MIdx |-> 0]]

\* C28: for a noise table whose rows all have the same noise level
\* downsampleRMSTab returns an empty table, calcCompleteness on the empty
\* table gives a surface that is 0 at every grid point, and a store that
\* downsamples holds such a tile with the empty table, the zero surface and
\* the full area of the table as read as its weight in the survey average.
C28_OneNoiseLevelTileIsZeroWithFullWeight ==
    (pc = "ready" /\ downsampleRMS) =>
        \A i \in 1..Len(selFnDictList) :
            LET rec == selFnDictList[i]
                raw == getRMSTab(cache, rec.tileName).tab
                ws == fracArea(selFnDictList, totalAreaDeg2)
            IN  OneNoiseLevel(raw) =>
                  /\ downsampleRMSTab(raw) = [status |-> "ok", tab |-> <<>>]
                  /\ rec.RMSTab = <<>>
                  /\ \A c \in Cosmologies, sr \in ValidScalings :
                        calcCompleteness(<<>>, rec.tileName, c, sr) = ZeroSurface
                  /\ rec.compMz \in {NoSurface, ZeroSurface}
                  /\ rec.tileAreaDeg2 = SumArea(raw)
                  /\ ws[i] = [num |-> SumArea(raw), den |-> totalAreaDeg2]
                  /\ totalAreaDeg2 = TotalArea(selFnDictList)
                  /\ (ret.op \in {"__init__", "update"} /\ ret.status = "ok") =>
                        /\ rec.compMz = ZeroSurface
                        /\ compMz = Average(compMzCube(selFnDictList), ws)

\* C28's case: a downsampling store of two tiles, the first with a table of
\* one noise level and positive area, after an update: the first record has
\* the empty table and the zero surface, its weight is its area, and the
\* survey average is below the second tile's surface at some grid point.
C28_Witness ==
    /\ pc = "ready" /\ downsampleRMS
    /\ ret.op = "update" /\ ret.status = "ok"
    /\ Len(selFnDictList) = 2
    /\ OneNoiseLevel(getRMSTab(cache, selFnDictList[1].tileName).tab)
    /\ selFnDictList[1].RMSTab = <<>>
    /\ selFnDictList[1].compMz = ZeroSurface
    /\ selFnDictList[1].tileAreaDeg2 > 0
    /\ Len(selFnDictList[2].RMSTab) > 0
    /\ \E k \in ZIdx, j \in MIdx :
          /\ selFnDictList[2].compMz[k][j] > 0
          /\ compMz[k][j] < selFnDictList[2].compMz[k][j]

\* The rows of tile `tileName` in the table of file f, without the tileName column
RowsOfTile(f, tileName) ==
    PlainRows(SelectSeq(f.tab, LAMBDA r : r.tileName = tileName))

\* File f is a table as getRMSTab writes it for one tile
IsPerTileTable(f) == f.present /\ f.cols = ""
\* File f is a table as tidyUp writes it
IsMergedTable(f) == f.present /\ f.cols = "tileName"

\* C29: tidyUp preserves the noise-table cache: for every tile and footprint
\* that had a per-tile table, getRMSTab after tidyUp returns the rows of the
\* per-tile table held before, selected by tileName from the merged table; a
\* per-tile file is gone only if the merged file holding its rows is written;
\* a second tidyUp changes nothing; and once the merged table of a footprint
\* exists getRMSTab for that footprint reads it and never builds or writes,
\* returning an empty table for a tile it does not contain.
C29_TidyUpPreservesCache ==
    [][/\ rtLast'.op = "tidyUp" =>
            /\ \A k \in RMSKeys :
                  LET perTile == TileFileName(k[1], k[2])
                      merged == MergedFileName(k[2])
                      after == getRMSTabInDir(rtFiles', rtMaps, rtMasks, k[1], k[2], None)
                  IN  IsPerTileTable(rtFiles[perTile]) =>
                        /\ after.out.status = "ok"
                        /\ after.out.cols # None
                        /\ PlainRows(after.out.value) = rtFiles[perTile].tab
                        /\ rtLast'.out.status = "ok" =>
                              /\ after.read = {merged}
                              /\ IsMergedTable(rtFiles'[merged])
                        /\ \/ rtFiles'[perTile] = rtFiles[perTile]
                           \/ /\ IsMergedTable(rtFiles'[merged])
                              /\ RowsOfTile(rtFiles'[merged], k[1]) = rtFiles[perTile].tab
            /\ TidyFrom(rtFiles', <<"">> \o selFnFootprints).files = rtFiles'
       /\ (rtLast'.op = "getRMSTab"
             /\ IsMergedTable(rtFiles[MergedFileName(rtLast'.footprintLabel)])) =>
            LET merged == MergedFileName(rtLast'.footprintLabel)
            IN  /\ rtFiles' = rtFiles
                /\ rtLast'.wrote = {}
                /\ rtLast'.read = {merged}
                /\ rtLast'.out.status = "ok"
                /\ rtLast'.out.cols = "tileName"
                /\ PlainRows(rtLast'.out.value) = RowsOfTile(rtFiles[merged], rtLast'.tileName)
                /\ (\A i \in 1..Len(rtFiles[merged].tab) :
                       rtFiles[merged].tab[i].tileName # rtLast'.tileName)
                      => rtLast'.out.value = <<>>
      ]_vars

\* C29's case: tidyUp has merged the tables that calls of getRMSTab had
\* written for tiles t1 and t2 without footprint: the per-tile files are
\* gone and the merged table gives back, for each of them, the rows written.
C29_Witness ==
    /\ rtLast # Idle
    /\ rtLast.op = "tidyUp" /\ rtLast.out.status = "ok"
    /\ rtPersisted[<<"t1", None>>].made /\ rtPersisted[<<"t2", None>>].made
    /\ ~rtFiles[TileFileName("t1", None)].present
    /\ ~rtFiles[TileFileName("t2", None)].present
    /\ IsMergedTable(rtFiles[MergedFileName(None)])
    /\ Len(rtPersisted[<<"t1", None>>].tab) > 0
    /\ Len(rtPersisted[<<"t2", None>>].tab) > 0
    /\ RowsOfTile(rtFiles[MergedFileName(None)], "t1") = rtPersisted[<<"t1", None>>].tab
    /\ RowsOfTile(rtFiles[MergedFileName(None)], "t2") = rtPersisted[<<"t2", None>>].tab

\* The tile has a cached noise table and the table's area is positive
HasPositiveArea(files, tileName) ==
    /\ files[tileName].present
    /\ SumArea(files[tileName].tab) > 0

\* The area of the tables of the tiles of `tiles`
RECURSIVE AreaOfTiles(_, _)
AreaOfTiles(files, tiles) ==
    IF Len(tiles) = 0 THEN 0
    ELSE SumArea(files[Head(tiles)].tab) + AreaOfTiles(files, Tail(tiles))

\* The constructor got as far as the update of line 126: the footprint is
\* defined and no table made downsampleRMSTab raise
ReachedUpdate ==
    /\ ret.op = "__init__"
    /\ footprintCheck(ret.footprintLabel, ret.parDict).status # "error"
    /\ ~InitLoopRaises(cache, downsampleRMS)

\* C30: SelFn requires at least one tile with positive area: the records of a
\* constructed store are those of the tiles whose cached table exists and has
\* positive area, in order, and totalAreaDeg2 is the area of these tables; when
\* no tile has one, the update of the constructor fails with
\* ZeroDivisionError (weights sum to zero), no survey-average surface is made
\* and the construction fails.
C30_NeedsATileWithPositiveArea ==
    LET withArea == SelectSeq(TileSeq, LAMBDA t : HasPositiveArea(cache, t))
    IN  /\ pc = "ready" =>
              /\ [i \in 1..Len(selFnDictList) |-> selFnDictList[i].tileName] = withArea
              /\ totalAreaDeg2 = AreaOfTiles(cache, withArea)
              /\ Len(selFnDictList) >= 1
              /\ totalAreaDeg2 > 0
        /\ (pc = "failed" /\ ReachedUpdate /\ Len(withArea) = 0) =>
              /\ ret.status = "error" /\ ret.error = "ZeroDivisionError"
              /\ selFnDictList = <<>>
              /\ totalAreaDeg2 = 0
              /\ compMz = NoSurface
        /\ (pc # "new" /\ Len(withArea) = 0) => pc = "failed"
        /\ (pc = "failed" /\ ReachedUpdate) => Len(withArea) = 0

\* C30's case: the constructor has failed in its update on a selFnDir where
\* one tile has no table and the other a table of zero area.
C30_Witness ==
    /\ pc = "failed" /\ ReachedUpdate
    /\ ret.error = "ZeroDivisionError"
    /\ \E t \in TileNames : ~cache[t].present
    /\ \E t \in TileNames : cache[t].present /\ Len(cache[t].tab) > 0
                               /\ SumArea(cache[t].tab) = 0
    /\ selFnDictList = <<>> /\ compMz = NoSurface

====
